---- MODULE Spec2Model ----
(***************************************************************************)
(* Model of the share collection orchestrator of unraid-auto-unlock        *)
(* (autounlock/secrets/get.go) together with the step of Unlock that       *)
(* consumes its result (autounlock/unlock.go, retrieveSecret).             *)
(*                                                                         *)
(* One main goroutine runs collectShares; every round it starts one task   *)
(* goroutine per configured path line that is not yet marked tried.  The   *)
(* array state (fsState in var.ini) belongs to the environment and may     *)
(* change at any moment.                                                   *)
(***************************************************************************)
EXTENDS Integers, Sequences, FiniteSets, TLC

\* ---------------------------------------------------------------- bounds
MaxPaths == 2        \* longest configured path list
MaxThreshold == 2    \* largest persisted threshold
NumShares == 2       \* distinct share identifiers the sources may serve
MaxRound == 2        \* the round counter (history only) saturates here

FsStates == {"Stopped", "Starting", "Started"}

\* The signing key of the persisted state, and a key that did not sign.
SigningKey == "K1"
OtherKey == "K2"

\* ------------------------------------------------------- pure functions

\* strings.EqualFold over the status strings in use.
Lower(s) ==
    CASE s = "Stopped" -> "stopped"
      [] s = "Starting" -> "starting"
      [] s = "Started" -> "started"
      [] OTHER -> s

\* unraid.Service.VerifyArrayStatus: a failed read of var.ini counts as
\* "does not have that status".
VerifyArrayStatus(status, fs, readOk) ==
    IF ~readOk THEN FALSE ELSE Lower(fs) = Lower(status)

\* shouldAbort: in test mode the array is not queried at all.  The only
\* caller (Unlock) always passes a service, so unraidSvc is never nil.
\* queried tells whether VerifyArrayStatus was called.
shouldAbort_NeverAborts(t, fs, readOk) ==
    [abort |-> FALSE, queried |-> ~t]

shouldAbort(t, fs, readOk) ==
    IF t
    THEN [abort |-> FALSE, queried |-> FALSE]
    ELSE [abort |-> VerifyArrayStatus("Started", fs, readOk), queried |-> TRUE]

\* What a source can serve: a text that is or is not valid base64, whose
\* tag was made under some key, and whose payload decodes to a share with
\* identifier id (0: the payload is malformed).
Texts ==
    {[b64 |-> TRUE, key |-> SigningKey, id |-> k] : k \in 1..NumShares}
    \cup {[b64 |-> FALSE, key |-> SigningKey, id |-> 1],
          [b64 |-> TRUE, key |-> OtherKey, id |-> 1],
          [b64 |-> TRUE, key |-> SigningKey, id |-> 0]}

NoText == [b64 |-> FALSE, key |-> OtherKey, id |-> 0]

\* One attempt of FetchShare: it fails, or it returns a text.
FetchOutcomes ==
    {[ok |-> FALSE, text |-> NoText]} \cup {[ok |-> TRUE, text |-> t] : t \in Texts}

\* GetShare: base64 decoding, tag verification, payload decoding.
GetShare(text, key) ==
    IF ~text.b64 THEN [err |-> "verify", id |-> 0]
    ELSE IF text.key # key THEN [err |-> "verify", id |-> 0]
    ELSE IF text.id = 0 THEN [err |-> "verify", id |-> 0]
    ELSE [err |-> "nil", id |-> text.id]

\* tryGetShare: (RetrievedShare, fetchSucceeded, err).
tryGetShare(outcome, key) ==
    IF ~outcome.ok
    THEN [fetchSucceeded |-> FALSE, err |-> "fetch", shareID |-> 0]
    ELSE LET g == GetShare(outcome.text, key)
         IN  IF g.err # "nil"
             THEN [fetchSucceeded |-> TRUE, err |-> g.err, shareID |-> 0]
             ELSE [fetchSucceeded |-> TRUE, err |-> "nil", shareID |-> g.id]

\* ---------------------------------------------------------------- state
VARIABLES
    paths,         \* the configured path lines (ReadPathsFromFile)
    threshold,     \* appState.Threshold
    test,          \* the test flag
    fsState,       \* the array state (environment)
    pc,            \* where the main goroutine is
    pathNum,       \* index of the dispatch loop
    task,          \* the task goroutine of each path line in this round
    mutex,         \* 0, or the line whose task holds the mutex
    triedPaths,    \* keys of the triedPaths map
    seenShares,    \* keys of the seenShares map
    shares,        \* the accumulated shares (by identifier)
    ret,           \* what collectShares returned
    result,        \* what GetShares returned
    round,         \* history: number of the current round (saturating)
    queried,       \* history: this round's start check queried the array
    sawStarted,    \* history: that query read the status Started
    fetchedOk,     \* history: paths a finished task fetched successfully
    delivered,     \* history: identifiers decoded by finished tasks
    leftStopped,   \* history: the array left Stopped during collection
    \* ---- the Unlock command (unlock.go)
    upc,           \* where Unlock is
    keyfile,       \* the plaintext keyfile on disk
    deferred,      \* the deferred RemoveKeyfile is registered
    polls,         \* sleeps of the running WaitForArrayStatus
    startCalls,    \* calls of StartArray so far
    startSent,     \* start commands that reached emhttpd
    uret,          \* what Unlock returns
    steps,         \* history: the steps Unlock ran, with their outcome
    arrayQueried,  \* history: Unlock or GetShares read the array state
    preCheck,      \* history: what the check before the state is read saw
    start1,        \* history: outcome of the first StartArray
    notStartedAfter, \* history: a read after the first StartArray was not Started
    removeRan,     \* history: outcome of RemoveKeyfile
    keyPath,       \* the --keyfile argument: the default path or another
    rootKeyfile,   \* the file at /root/keyfile when --keyfile is another
    startedSeen,   \* history: the read after DecryptFile that was Started
    startLog,      \* history: per StartArray call, what it saw and sent
    \* ---- the secret sharing engine (secrets/secret.go, secrets/hash.go)
    spc,           \* where the use of the engine is
    secArgs,       \* the arguments of CreateSecret
    sec,           \* the SharedSecret that CreateSecret returned
    decoded,       \* the key shares GetShare returned so far
    presented,     \* history: the last text given to GetShare, and the result
    combined,      \* what CombineSecret returned
    \* ---- the envelope cipher (encryption/encryption.go)
    cpc,           \* where the use of the cipher is
    cin,           \* the input file of EncryptFile, its key and its nonce
    artifact,      \* the encrypted file
    cdec,          \* key and nonce of DecryptFile, and its error
    output,        \* the output file of DecryptFile
    \* ---- Setup and the Unlock that follows it (setup.go, state/state.go)
    wpc,           \* where Setup, then Unlock, is
    stateFile,     \* the persisted state
    precheck,      \* what Setup's TestKeyfile found, and its error
    \* ---- the fetcher registry (secrets/registry/registry.go)
    rpc,           \* where each goroutine calling Register is
    registryMu,    \* 0, or the goroutine holding registryMu for writing
    fetchers,      \* the package variable: the registered fetchers
    got,           \* what the last call of GetFetchers returned, and
                   \* what its caller has made of it since
    fret,          \* the last FetchShare: its path, the Fetch calls it
                   \* made, its error
    \* ---- the application lock (lock.go)
    lpc,           \* where each instance of the program is
    lockHolders,   \* the instances holding the lock on the lock file
    dispatched,    \* the subcommand each instance ran, or "none"
    sawHeld,       \* whether the lock was held when the instance asked
    \* ---- Reset (util.go)
    xpc,           \* where ResetConfiguration is
    xargs,         \* its force flag
    files,         \* which of the files on disk are present
    xret,          \* what ResetConfiguration returned
    xrun,          \* the number of the Reset being run
    xhist,         \* the files at the start of this Reset and at the end
                   \* of the first one, and the removals of this one
    \* ---- TestPath (util.go), and the file accesses of Unlock and TestPath
    tpc,           \* where TestPath is
    tpret,         \* the text TestPath fetched, and what it returned
    fileOps,       \* the accesses to files made so far: kind and file
    \* ---- one call of WaitForArrayStatus (unraid.go)
    wfpc,          \* where the loop is
    wfargs,        \* status and timeout of the call
    now,           \* the clock, in ticks since the call
    deadline,      \* the deadline the call computed
    observed,      \* what each check read, and when it ended
    wfret          \* what the call returned

collectVars == <<paths, threshold, test, fsState, pc, pathNum, task, mutex,
                 triedPaths, seenShares, shares, ret, result, round, queried,
                 sawStarted, fetchedOk, delivered, leftStopped>>

collectOnly == <<paths, threshold, pc, pathNum, task, mutex, triedPaths,
                 seenShares, shares, ret, result, round, queried, sawStarted,
                 fetchedOk, delivered, leftStopped>>

unlockVars == <<upc, keyfile, deferred, polls, startCalls, startSent, uret,
                steps, arrayQueried, preCheck, start1, notStartedAfter,
                removeRan, keyPath, rootKeyfile, startedSeen, startLog>>

secretVars == <<spc, secArgs, sec, decoded, presented, combined>>

cipherVars == <<cpc, cin, artifact, cdec, output>>

setupVars == <<wpc, stateFile, precheck>>

registryVars == <<rpc, registryMu, fetchers, got, fret>>

lockVars == <<lpc, lockHolders, dispatched, sawHeld>>

\* The state of the workflows added after Setup.
resetVars == <<xpc, xargs, files, xret, xrun, xhist>>

testPathOwn == <<tpc, tpret>>

testPathVars == <<testPathOwn, fileOps>>

waitVars == <<wfpc, wfargs, now, deadline, observed, wfret>>

extraVars == <<registryVars, lockVars, resetVars, testPathVars, waitVars>>

\* What the share collection leaves alone.
others == <<unlockVars, secretVars, cipherVars, setupVars, extraVars>>

vars == <<collectVars, others>>

\* The Unlock command is not running.
UnlockIdle ==
    /\ upc = "idle"
    /\ keyfile = "absent"
    /\ deferred = FALSE
    /\ polls = 0
    /\ startCalls = 0
    /\ startSent = 0
    /\ uret = "pending"
    /\ steps = <<>>
    /\ arrayQueried = FALSE
    /\ preCheck = "none"
    /\ start1 = "none"
    /\ notStartedAfter = FALSE
    /\ removeRan = "no"
    /\ keyPath = "/root/keyfile"
    /\ rootKeyfile = "absent"
    /\ startedSeen = "none"
    /\ startLog = <<>>

NoSecret == [err |-> "pending", Secret |-> <<>>, SigningKey |-> SigningKey,
             Nonce |-> <<>>, Shares |-> <<>>]
NoPresented == [kind |-> "none", err |-> "nil", id |-> 0]
NoCombined == [err |-> "pending", secret |-> <<>>]

\* The secret sharing engine is not in use.
SecretIdle ==
    /\ spc = "idle"
    /\ secArgs = [threshold |-> 0, shares |-> 0]
    /\ sec = NoSecret
    /\ decoded = {}
    /\ presented = NoPresented
    /\ combined = NoCombined

NoFile == [exists |-> FALSE, data |-> <<>>]
NoTag == [key |-> <<>>, nonce |-> <<>>, body |-> <<>>, flipped |-> FALSE]
NoArtifact == [exists |-> FALSE, body |-> <<>>, tag |-> NoTag]

\* The envelope cipher is not in use.
CipherIdle ==
    /\ cpc = "idle"
    /\ cin = [file |-> NoFile, key |-> <<>>, nonce |-> <<>>,
              tampered |-> "no"]
    /\ artifact = NoArtifact
    /\ cdec = [key |-> <<>>, nonce |-> <<>>, err |-> "pending"]
    /\ output = NoFile

NoState == [exists |-> FALSE, signingKey |-> SigningKey, nonce |-> <<>>,
            threshold |-> 0]

\* Setup is not running.
NoPrecheck == [err |-> "pending", exists |-> FALSE, lsblk |-> FALSE,
               opened |-> FALSE, keyfile |-> NoFile]

SetupIdle ==
    /\ wpc = "idle"
    /\ stateFile = NoState
    /\ precheck = NoPrecheck

\* The goroutines that call Register, each once.
Goroutines == {1, 2, 3}

NilSlice == [isNil |-> TRUE, elems |-> <<>>]

NoFetch == [path |-> "none", calls |-> <<>>, err |-> "pending"]

NoGot == [n |-> 0, returned |-> NilSlice, alias |-> FALSE, appended |-> {},
          slice |-> <<>>, mutated |-> "no", unchanged |-> TRUE]

\* Nothing uses the registry.
RegistryIdle ==
    /\ rpc = [g \in Goroutines |-> "idle"]
    /\ registryMu = 0
    /\ fetchers = NilSlice
    /\ got = NoGot
    /\ fret = NoFetch

NumInstances == 3    \* instances of the program started

Instances == 1..NumInstances

\* No instance has been started.
LockIdle ==
    /\ lpc = [i \in Instances |-> "idle"]
    /\ lockHolders = {}
    /\ dispatched = [i \in Instances |-> "none"]
    /\ sawHeld = [i \in Instances |-> FALSE]

\* The artifacts Reset is about, in the order of util.go:161, and the
\* other file of the program.
ResetFiles == <<"state", "encrypted", "config">>

DiskFiles == {"state", "encrypted", "config", "keyfile"}

\* Reset is not running.
ResetIdle ==
    /\ xpc = "idle"
    /\ xargs = [force |-> FALSE]
    /\ files = [f \in DiskFiles |-> "absent"]
    /\ xret = "pending"
    /\ xrun = 0
    /\ xhist = [start |-> files, first |-> files, log |-> <<>>]

NoTestPath == [text |-> <<>>, err |-> "pending"]

\* TestPath is not running and no file has been touched.
TestPathIdle ==
    /\ tpc = "idle"
    /\ tpret = NoTestPath
    /\ fileOps = {}

\* WaitForArrayStatus is not under study.
WaitIdle ==
    /\ wfpc = "idle"
    /\ wfargs = [status |-> "Stopped", timeout |-> 0]
    /\ now = 0
    /\ deadline = 0
    /\ observed = <<>>
    /\ wfret = "pending"

ExtraIdle ==
    RegistryIdle /\ LockIdle /\ ResetIdle /\ TestPathIdle /\ WaitIdle

inputs == <<paths, threshold, test>>
hist == <<round, queried, sawStarted, fetchedOk, delivered, leftStopped>>

Lines == 1..Len(paths)

TaskRec(st, r) ==
    [st |-> st, fetchSucceeded |-> r.fetchSucceeded, err |-> r.err,
     shareID |-> r.shareID]

NoTask == [st |-> "none", fetchSucceeded |-> FALSE, err |-> "nil", shareID |-> 0]

\* Paths are compared for equality only (they are map keys), so a path is
\* a number and a list is taken up to renaming: its first path is 1 and
\* every later line repeats an earlier path or uses the next number.
Canonical(ps) ==
    \A i \in 1..Len(ps) :
        \A q \in 1..(ps[i] - 1) : \E j \in 1..(i - 1) : ps[j] = q

PathLists ==
    {ps \in UNION {[1..n -> 1..MaxPaths] : n \in 0..MaxPaths} : Canonical(ps)}

NoReturn == [shares |-> <<>>, err |-> "pending"]

Init ==
    /\ paths \in PathLists
    /\ threshold \in 1..MaxThreshold
    /\ test \in BOOLEAN
    /\ fsState \in FsStates
    /\ pc = "abort_check"
    /\ pathNum = 1
    /\ task = [i \in 1..MaxPaths |-> NoTask]
    /\ mutex = 0
    /\ triedPaths = {}
    /\ seenShares = {}
    /\ shares = <<>>
    /\ ret = NoReturn
    /\ result = NoReturn
    /\ round = 1
    /\ queried = FALSE
    /\ sawStarted = FALSE
    /\ fetchedOk = {}
    /\ delivered = {}
    /\ leftStopped = FALSE
    /\ UnlockIdle
    /\ SecretIdle
    /\ CipherIdle
    /\ SetupIdle
    /\ ExtraIdle

\* -------------------------------------------------- collectShares helpers

\* sync.Mutex.Lock succeeds only while nobody holds the mutex.
LockAvailable_NoExclusion(m) == TRUE

LockAvailable(m) == m = 0

\* sync.WaitGroup.Wait returns once every task of the round has returned.
WaitGroupDone_NoBarrier(t, n) == TRUE

WaitGroupDone(t, n) == \A i \in 1..n : t[i].st \in {"none", "done"}

\* get.go:179-181: the path is marked tried exactly when the fetch
\* succeeded, whatever the decoding said.
MarkTried_OnlyValid(tried, path, r) ==
    IF r.err = "nil" THEN tried \cup {path} ELSE tried

MarkTried(tried, path, r) ==
    IF r.fetchSucceeded THEN tried \cup {path} ELSE tried

\* get.go:183-185: a task whose fetch or decoding failed returns and
\* leaves the accumulated list as it is; its error goes nowhere.
OnTaskError_Discards(list, r) == <<>>

OnTaskError(list, r) == list

\* get.go:188: the identifier is already a key of seenShares.
IsDuplicate(r, seen) == r.shareID \in seen

\* get.go:194
AppendShare(list, r) == Append(list, r.shareID)

\* get.go:150: an abort returns no shares, whatever was accumulated.
AbortReturn_KeepsShares(list) == [shares |-> list, err |-> "abort"]

AbortReturn(list) == [shares |-> <<>>, err |-> "abort"]

\* get.go:201
EnoughShares(list, thr) == Len(list) >= thr

\* get.go:206: the size of the triedPaths map against the number of lines.
AllTried_Strict(tried, ps) == Cardinality(tried) > Len(ps)

AllTried(tried, ps) == Cardinality(tried) >= Len(ps)

\* get.go:201-208: the decision after the barrier.
AfterRound_GivesUp(list, thr, tried, ps, t) ==
    IF EnoughShares(list, thr) /\ ~t THEN "return" ELSE "break"

AfterRound_TestRetries(list, thr, tried, ps, t) ==
    IF EnoughShares(list, thr) /\ ~t THEN "return"
    ELSE IF AllTried(tried, ps) THEN "break"
    ELSE "sleep"

AfterRound(list, thr, tried, ps, t) ==
    IF EnoughShares(list, thr) /\ ~t THEN "return"
    ELSE IF AllTried(tried, ps) \/ t THEN "break"
    ELSE "sleep"

\* GetShares, get.go:244-256.
GetSharesResult_TrustsCollect(r, thr) ==
    IF r.err # "nil" THEN [shares |-> <<>>, err |-> r.err]
    ELSE [shares |-> r.shares, err |-> "nil"]

GetSharesResult(r, thr) ==
    IF r.err # "nil" THEN [shares |-> <<>>, err |-> r.err]
    ELSE IF Len(r.shares) >= thr THEN [shares |-> r.shares, err |-> "nil"]
    ELSE [shares |-> <<>>, err |-> "not_enough"]

\* -------------------------------------------------------------- actions

Collecting == pc \in {"abort_check", "dispatch", "wait", "evaluate", "sleep"}

\* get.go:149-153: the round-start check.
AbortCheck ==
    /\ pc = "abort_check"
    /\ \E readOk \in BOOLEAN :
         LET a == shouldAbort(test, fsState, readOk)
         IN  /\ queried' = a.queried
             /\ sawStarted' = (a.queried /\ readOk /\ fsState = "Started")
             /\ IF a.abort
                THEN /\ pc' = "collect_returned"
                     /\ ret' = AbortReturn(shares)
                ELSE /\ pc' = "dispatch"
                     /\ ret' = ret
    /\ pathNum' = 1
    /\ UNCHANGED <<inputs, fsState, task, mutex, triedPaths, seenShares,
                   shares, result, round, fetchedOk, delivered, leftStopped>>
    /\ UNCHANGED others

\* get.go:155-197: one iteration of the dispatch loop.  The read of
\* triedPaths is made under the mutex.
Dispatch ==
    /\ pc = "dispatch"
    /\ pathNum <= Len(paths)
    /\ LockAvailable(mutex)
    /\ task' = IF paths[pathNum] \in triedPaths
               THEN task
               ELSE [task EXCEPT ![pathNum] = [NoTask EXCEPT !.st = "running"]]
    /\ pathNum' = pathNum + 1
    /\ UNCHANGED <<inputs, fsState, pc, mutex, triedPaths, seenShares,
                   shares, ret, result, hist>>
    /\ UNCHANGED others

\* The loop is over: the main goroutine reaches waitGroup.Wait().
DispatchDone ==
    /\ pc = "dispatch"
    /\ pathNum > Len(paths)
    /\ pc' = "wait"
    /\ UNCHANGED <<inputs, fsState, pathNum, task, mutex, triedPaths,
                   seenShares, shares, ret, result, hist>>
    /\ UNCHANGED others

\* get.go:168-192: the task of line i.  tryGetShare runs outside the mutex
\* and touches no shared state, so its outcome is drawn when the task
\* takes the mutex.  The task marks its path and returns on an error or
\* a duplicate; otherwise it goes on, holding the mutex, to the append.
TaskFetch(i) ==
    /\ i \in Lines
    /\ task[i].st = "running"
    /\ LockAvailable(mutex)
    /\ \E o \in FetchOutcomes :
         LET r == tryGetShare(o, SigningKey)
         IN  /\ triedPaths' = MarkTried(triedPaths, paths[i], r)
             /\ fetchedOk' = IF o.ok THEN fetchedOk \cup {paths[i]} ELSE fetchedOk
             /\ IF r.err # "nil"
                THEN /\ task' = [task EXCEPT ![i] = TaskRec("done", r)]
                     /\ shares' = OnTaskError(shares, r)
                     /\ UNCHANGED <<mutex, delivered>>
                ELSE IF IsDuplicate(r, seenShares)
                THEN /\ task' = [task EXCEPT ![i] = TaskRec("done", r)]
                     /\ delivered' = delivered \cup {r.shareID}
                     /\ UNCHANGED <<mutex, shares>>
                ELSE /\ task' = [task EXCEPT ![i] = TaskRec("append", r)]
                     /\ mutex' = i
                     /\ UNCHANGED <<shares, delivered>>
    /\ UNCHANGED <<inputs, fsState, pc, pathNum, seenShares, ret, result,
                   round, queried, sawStarted, leftStopped>>
    /\ UNCHANGED others

\* get.go:194-196: append, remember the identifier, release the mutex.
TaskAppend(i) ==
    /\ i \in Lines
    /\ task[i].st = "append"
    /\ shares' = AppendShare(shares, task[i])
    /\ seenShares' = seenShares \cup {task[i].shareID}
    /\ delivered' = delivered \cup {task[i].shareID}
    /\ task' = [task EXCEPT ![i].st = "done"]
    /\ mutex' = IF mutex = i THEN 0 ELSE mutex
    /\ UNCHANGED <<inputs, fsState, pc, pathNum, triedPaths, ret, result,
                   round, queried, sawStarted, fetchedOk, leftStopped>>
    /\ UNCHANGED others

\* get.go:199: the join barrier.
Wait ==
    /\ pc = "wait"
    /\ WaitGroupDone(task, Len(paths))
    /\ pc' = "evaluate"
    /\ UNCHANGED <<inputs, fsState, pathNum, task, mutex, triedPaths,
                   seenShares, shares, ret, result, hist>>
    /\ UNCHANGED others

\* get.go:201-208 and 219.
Evaluate ==
    /\ pc = "evaluate"
    /\ LET d == AfterRound(shares, threshold, triedPaths, paths, test)
       IN  IF d = "sleep"
           THEN /\ pc' = "sleep"
                /\ ret' = ret
           ELSE /\ pc' = "collect_returned"
                /\ ret' = [shares |-> shares, err |-> "nil"]
    /\ UNCHANGED <<inputs, fsState, pathNum, task, mutex, triedPaths,
                   seenShares, shares, result, hist>>
    /\ UNCHANGED others

\* get.go:216: the retry sleep ends and the loop starts the next round.
Sleep ==
    /\ pc = "sleep"
    /\ pc' = "abort_check"
    /\ round' = IF round < MaxRound THEN round + 1 ELSE round
    /\ task' = [i \in 1..MaxPaths |-> NoTask]
    /\ queried' = FALSE
    /\ UNCHANGED <<inputs, fsState, pathNum, mutex, triedPaths, seenShares,
                   shares, ret, result, sawStarted, fetchedOk, delivered,
                   leftStopped>>
    /\ UNCHANGED others

\* get.go:236-256: GetShares turns what collectShares returned into its
\* own return value.
GetSharesReturn ==
    /\ pc = "collect_returned"
    /\ result' = GetSharesResult(ret, threshold)
    /\ pc' = "getshares_returned"
    /\ UNCHANGED <<inputs, fsState, pathNum, task, mutex, triedPaths,
                   seenShares, shares, ret, hist>>
    /\ UNCHANGED others

\* unlock.go:116-133 and 50-55: retrieveSecret gives up on an error of
\* GetShares or of CombineSecret; otherwise Unlock calls DecryptFile.
RetrieveSecret ==
    /\ pc = "getshares_returned"
    /\ \E combineOk \in BOOLEAN :
         pc' = IF result.err = "nil" /\ combineOk
               THEN "unlock_decrypt"
               ELSE "unlock_failed"
    /\ UNCHANGED <<inputs, fsState, pathNum, task, mutex, triedPaths,
                   seenShares, shares, ret, result, hist>>
    /\ UNCHANGED others

\* The environment: the array changes state (a manual start, a stop).
ArrayChange ==
    /\ Collecting
    /\ \E s \in FsStates \ {fsState} :
         /\ fsState' = s
         /\ leftStopped' = (leftStopped \/ s # "Stopped")
    /\ UNCHANGED <<inputs, pc, pathNum, task, mutex, triedPaths, seenShares,
                   shares, ret, result, round, queried, sawStarted,
                   fetchedOk, delivered>>
    /\ UNCHANGED others

Next ==
    \/ AbortCheck
    \/ Dispatch
    \/ DispatchDone
    \/ \E i \in 1..MaxPaths : TaskFetch(i)
    \/ \E i \in 1..MaxPaths : TaskAppend(i)
    \/ Wait
    \/ Evaluate
    \/ Sleep
    \/ GetSharesReturn
    \/ RetrieveSecret
    \/ ArrayChange

Spec == Init /\ [][Next]_vars

\* ------------------------------------------------------------ properties

GetSharesDone == pc \in {"getshares_returned", "unlock_decrypt", "unlock_failed"}

TasksFinished == \A i \in 1..MaxPaths : task[i].st \in {"none", "done"}

NoDuplicates(list) ==
    \A i, j \in 1..Len(list) : list[i] = list[j] => i = j

EveryPathFetchedOk == \A i \in Lines : paths[i] \in fetchedOk

\* C1: GetShares returns success only when collectShares came back from a
\* completed round without an abort and holding at least Threshold
\* accumulated shares; then it returns those shares.  In every other case
\* it returns an error and no shares.
C1_SuccessOnlyWithThreshold ==
    GetSharesDone =>
        /\ TasksFinished
        /\ (result.err = "nil") <=> (ret.err # "abort" /\ Len(shares) >= threshold)
        /\ result.err = "nil" =>
               (result.shares = shares /\ Len(result.shares) >= threshold)
        /\ result.err # "nil" => result.shares = <<>>

C1_Witness ==
    /\ GetSharesDone
    /\ result.err = "nil"
    /\ threshold = 2
    /\ Len(result.shares) = 2
    /\ round = 2

\* C2: a path is marked tried exactly when a fetch of it has succeeded,
\* whatever the decoding said; a task is started only for a path no fetch
\* of which has succeeded yet; and at the barrier every path still without
\* a successful fetch has been dispatched in the round.
C2_TriedIffFetchSucceeded ==
    /\ [](triedPaths = fetchedOk)
    /\ [][\A i \in 1..MaxPaths :
            (task[i].st = "none" /\ task'[i].st = "running")
                => paths[i] \notin fetchedOk]_vars
    /\ [](pc \in {"wait", "evaluate", "sleep"} =>
            \A i \in Lines :
                paths[i] \notin fetchedOk =>
                    \E j \in Lines : paths[j] = paths[i] /\ task[j].st # "none")

C2_Witness ==
    /\ round = 2
    /\ pc = "wait"
    /\ delivered = {}
    /\ \E i, j \in Lines :
          /\ paths[i] \in triedPaths
          /\ task[i].st = "none"
          /\ paths[j] \notin triedPaths
          /\ task[j].st = "running"

\* C3: the accumulated list never holds an identifier twice, and its
\* length is the number of distinct identifiers decoded by the tasks that
\* have finished: a duplicate adds nothing and raises no error.
C3_NoDuplicateShares ==
    /\ NoDuplicates(shares)
    /\ Len(shares) = Cardinality(delivered)
    /\ \A i \in 1..Len(shares) : shares[i] \in delivered

C3_Witness ==
    \E i, j \in Lines :
        /\ paths[i] # paths[j]
        /\ task[i].st = "done" /\ task[j].st = "done"
        /\ task[i].err = "nil" /\ task[j].err = "nil"
        /\ task[i].shareID = task[j].shareID
        /\ Len(shares) = 1

\* C4: outside the dispatch loop and the wait no task is running; a
\* return of collectShares with shares comes from the evaluation after the
\* barrier; and a new round starts only out of the retry sleep.
C4_BarrierBeforeEvaluation ==
    /\ [](pc \notin {"dispatch", "wait"} => TasksFinished)
    /\ [][(ret' # ret /\ ret'.err = "nil") => (pc = "evaluate" /\ TasksFinished)]_vars
    /\ [][(pc' = "abort_check" /\ pc # "abort_check") => pc = "sleep"]_vars
    /\ [][(pc' = "dispatch" /\ pc # "dispatch") =>
            (pc = "abort_check" /\ \A i \in 1..MaxPaths : task[i].st = "none")]_vars

C4_Witness ==
    /\ pc = "evaluate"
    /\ round = 2
    /\ Cardinality({i \in Lines : task[i].st = "done"}) = 2

\* C5 as stated: once the array has left Stopped during the collection of
\* a non-test run, GetShares does not succeed and Unlock does not decrypt.
C5_FatalWheneverArrayLeft ==
    (~test /\ leftStopped) => (result.err # "nil" /\ pc # "unlock_decrypt")

\* C5 amended: in non-test mode, when the check at the start of a round
\* reads the array as Started, the run is fatal: collectShares aborts,
\* GetShares returns the abort error and Unlock does not decrypt.
C5_FatalWhenStartedAtRoundStart ==
    (~test /\ sawStarted) =>
        /\ pc \in {"collect_returned", "getshares_returned", "unlock_failed"}
        /\ ret.err = "abort"
        /\ result.err \in {"pending", "abort"}

C5_Witness ==
    /\ ~test
    /\ sawStarted
    /\ leftStopped
    /\ pc = "unlock_failed"
    /\ result.err = "abort"
    /\ round = 2

\* C6: in non-test mode a round dispatches only after its start check has
\* queried the array, and no task exists at the check; a check that reads
\* Started makes collectShares return the abort error with no shares,
\* starting no task and dropping what earlier rounds accumulated.
C6_AbortAtRoundStart ==
    /\ []((~test /\ pc \in {"dispatch", "wait", "evaluate"}) => queried)
    /\ [](pc = "abort_check" => \A i \in 1..MaxPaths : task[i].st = "none")
    /\ [][(~test /\ pc = "abort_check" /\ sawStarted') =>
            /\ pc' = "collect_returned"
            /\ ret' = [shares |-> <<>>, err |-> "abort"]
            /\ task' = task]_vars

C6_Witness ==
    /\ ~test
    /\ pc = "collect_returned"
    /\ ret = [shares |-> <<>>, err |-> "abort"]
    /\ round = 2
    /\ Len(shares) = 1

\* C7 as stated: collectShares does not go to the retry sleep once every
\* configured path has had a successful fetch.
C7_StopsWhenEveryPathFetched ==
    pc = "sleep" => ~EveryPathFetchedOk

\* C8: in non-test mode collectShares returns only with the threshold met
\* after a round, with every path tried after a round, or with the abort
\* at a round start where the array is Started; otherwise the evaluation
\* leads to the sleep, the sleep to the next check and the check to the
\* next dispatch.
C8_NoGiveUp ==
    /\ [][(~test /\ ret' # ret) =>
            \/ /\ pc = "evaluate" /\ ret'.err = "nil"
               /\ Len(shares) >= threshold
            \/ /\ pc = "evaluate" /\ ret'.err = "nil"
               /\ EveryPathFetchedOk
            \/ /\ pc = "abort_check" /\ ret'.err = "abort"
               /\ fsState = "Started"]_vars
    /\ [][(~test /\ pc = "evaluate" /\ pc' # pc /\ Len(shares) < threshold
               /\ ~EveryPathFetchedOk) => pc' = "sleep"]_vars
    /\ [][(pc = "sleep" /\ pc' # pc) => pc' = "abort_check"]_vars
    /\ [][(~test /\ pc = "abort_check" /\ pc' # pc /\ fsState # "Started")
               => pc' = "dispatch"]_vars

C8_Witness ==
    /\ ~test
    /\ pc = "dispatch"
    /\ round = 2
    /\ Len(shares) < threshold
    /\ fsState = "Stopped"
    /\ \E i \in Lines : task[i].st = "running"

\* C9: in test mode there is one round only, without any query of the
\* array and without sleep; in it every configured path is fetched, and
\* GetShares succeeds exactly when the tasks of that round decoded at
\* least Threshold distinct identifiers.
C9_TestModeSingleRound ==
    test =>
        /\ round = 1
        /\ ~queried
        /\ ~sawStarted
        /\ pc # "sleep"
        /\ ret.err # "abort"
        /\ pc \notin {"abort_check", "dispatch"} =>
               \A i \in Lines : \E j \in Lines :
                   paths[j] = paths[i] /\ task[j].st # "none"
        /\ GetSharesDone =>
               ((result.err = "nil") <=> (Cardinality(delivered) >= threshold))

C9_Witness ==
    /\ test
    /\ GetSharesDone
    /\ result.err = "not_enough"
    /\ fsState = "Started"
    /\ \E i \in Lines : task[i].st = "done" /\ task[i].err = "fetch"
    /\ Len(shares) = 1

\* C10: the error of a task never becomes the error of GetShares, which is
\* the abort or the not-enough-shares error only, and it does not stand in
\* the way of success: whenever the finished tasks decoded at least
\* Threshold distinct identifiers and there was no abort, GetShares succeeds.
C10_TaskErrorsAbsorbed ==
    /\ result.err \in {"pending", "nil", "abort", "not_enough"}
    /\ ret.err \in {"pending", "nil", "abort"}
    /\ (GetSharesDone /\ ret.err = "nil" /\ Cardinality(delivered) >= threshold)
           => result.err = "nil"
    /\ (GetSharesDone /\ result.err = "not_enough")
           => Cardinality(delivered) < threshold

C10_Witness ==
    /\ GetSharesDone
    /\ result.err = "nil"
    /\ \E i, j \in Lines :
          /\ task[i].st = "done" /\ task[i].err # "nil"
          /\ task[j].st = "done" /\ task[j].err = "nil"

\* ================================================================
\* The Unlock command (unlock.go:32-108), with the array and the
\* filesystem as its environment.  GetShares is taken here by its return
\* value; its rounds are the specification Spec above.
\* ================================================================

MaxPolls == 2        \* sleeps of one WaitForArrayStatus before its deadline

\* The share collection is not running.
CollectIdle ==
    /\ paths = <<>>
    /\ threshold = 1
    /\ pc = "idle"
    /\ pathNum = 1
    /\ task = [i \in 1..MaxPaths |-> NoTask]
    /\ mutex = 0
    /\ triedPaths = {}
    /\ seenShares = {}
    /\ shares = <<>>
    /\ ret = NoReturn
    /\ result = NoReturn
    /\ round = 1
    /\ queried = FALSE
    /\ sawStarted = FALSE
    /\ fetchedOk = {}
    /\ delivered = {}
    /\ leftStopped = FALSE

\* What the Unlock command leaves alone.
\* What Unlock leaves alone, without and with the record of file accesses.
unlockStill == <<collectOnly, test, secretVars, cipherVars, setupVars,
                 registryVars, lockVars, resetVars, testPathOwn, waitVars>>

unlockArgs == <<keyPath, rootKeyfile>>

unlockQuiet == <<unlockStill, unlockArgs, startedSeen, startLog>>

unlockFrame == <<unlockQuiet, fileOps>>

\* An access to a file of the program: "read", "write" or "remove".
FileOp(op, file) == [op |-> op, file |-> file]

\* state.go:85-101: ReadStateFromFile reads the state file.
ReadStateOps == {FileOp("read", "state")}

\* get.go:67-95: ReadPathsFromFile opens the config file and scans it.
ReadPathsOps == {FileOp("read", "config")}

\* encryption.go:147-201, called at unlock.go:55-60: DecryptFile reads
\* the encrypted file; unless opening it failed it writes the keyfile.
DecryptFileOps_WritesInput(err) ==
    {FileOp("read", "encrypted"), FileOp("write", "encrypted")}

DecryptFileOps(err) ==
    IF err = "open" THEN {FileOp("read", "encrypted")}
    ELSE {FileOp("read", "encrypted"), FileOp("write", "keyfile")}

\* util.go:96-112: RemoveKeyfile removes the keyfile.
RemoveKeyfileOps == {FileOp("remove", "keyfile")}

\* unraid.go:49-106: TestKeyfile stats the keyfile and hands it to
\* cryptsetup.
TestKeyfileOps == {FileOp("read", "keyfile")}

\* unraid.go:190: StartArray stats /root/keyfile.
StartArrayOps == {FileOp("read", "/root/keyfile")}

\* Unlock is called; the --keyfile argument is still to be fixed.
UnlockStart ==
    /\ test \in BOOLEAN
    /\ fsState \in FsStates
    /\ CollectIdle
    /\ SecretIdle
    /\ CipherIdle
    /\ SetupIdle
    /\ ExtraIdle
    /\ upc = "precheck"
    /\ keyfile = "absent"
    /\ deferred = FALSE
    /\ polls = 0
    /\ startCalls = 0
    /\ startSent = 0
    /\ uret = "pending"
    /\ steps = <<>>
    /\ arrayQueried = FALSE
    /\ preCheck = "none"
    /\ start1 = "none"
    /\ notStartedAfter = FALSE
    /\ removeRan = "no"
    /\ startedSeen = "none"
    /\ startLog = <<>>

\* args.go:36: the keyfile path is the default one.
UnlockInit ==
    /\ UnlockStart
    /\ keyPath = "/root/keyfile"
    /\ rootKeyfile = "absent"

\* unraid.go:218-238: one turn of the loop of WaitForArrayStatus, n sleeps
\* after its start; the deadline passes after MaxPolls sleeps.
WaitForArrayStatus_DeadlineIsSuccess(status, fs, readOk, n) ==
    IF VerifyArrayStatus(status, fs, readOk) THEN "nil"
    ELSE IF n >= MaxPolls THEN "nil"
    ELSE "sleep"

WaitForArrayStatus(status, fs, readOk, n) ==
    IF VerifyArrayStatus(status, fs, readOk) THEN "nil"
    ELSE IF n >= MaxPolls THEN "timeout"
    ELSE "sleep"

\* unlock.go:33: the array is looked at only outside test mode.
ChecksArray(t) == ~t

\* unlock.go:34-37: an array that is already started ends Unlock.
PrecheckVerdict_IgnoresStarted(started) == "wait"

PrecheckVerdict(started) == IF started THEN "abort" ELSE "wait"

\* unlock.go:116-119 and 50-53: an error of GetShares ends retrieveSecret
\* and with it Unlock.
AfterGetShares_GoesOn(err) == "combine"

AfterGetShares(err) == IF err # "nil" THEN "return" ELSE "combine"

\* unlock.go:128-131 and 50-53: so does an error of CombineSecret.
AfterCombine(ok) == IF ok THEN "decrypt" ELSE "return"

\* unlock.go:61-63: an error of DecryptFile ends Unlock.
AfterDecryptFile(err) == IF err # "nil" THEN "return" ELSE "go_on"

\* unlock.go:67-81: test mode tests the keyfile; otherwise the array is
\* started.
AfterDefer_AlwaysStarts(t) == "start"

AfterDefer(t) == IF t THEN "test_keyfile" ELSE "start"

\* unlock.go:89-94: after the retry delay a started array ends Unlock;
\* otherwise StartArray is called again.
RetryStart_Never(started) == "return"

RetryStart(started) == IF started THEN "return" ELSE "start"

\* unlock.go:65: a registered defer runs on every return, whatever the
\* returned error.
RunsDeferred_OnSuccessOnly(d, err) == d /\ err = "nil"

RunsDeferred(d, err) == d

\* util.go:98: what a.fs.Remove can answer for the keyfile.
RemoveOutcomes(kf) ==
    IF kf = "absent" THEN {"notfound"} ELSE {"removed", "failed"}

\* util.go:96-112: RemoveKeyfile; a failed removal is logged and nothing
\* else, so the file stays.
RemoveKeyfile(kf, outcome) == IF outcome = "removed" THEN "absent" ELSE kf

StepRec(name, ok) == [step |-> name, ok |-> ok]

\* A return statement of Unlock: the deferred call, if any, runs first.
UnlockReturn(err) ==
    /\ uret' = err
    /\ upc' = IF RunsDeferred(deferred, err) THEN "deferred" ELSE "returned"

\* unlock.go:33-37: the array must not be started already.
Precheck ==
    /\ upc = "precheck"
    /\ IF ChecksArray(test)
       THEN \E readOk \in BOOLEAN :
              LET started == VerifyArrayStatus("Started", fsState, readOk)
              IN  /\ arrayQueried' = TRUE
                  /\ preCheck' = IF started THEN "started" ELSE preCheck
                  /\ IF PrecheckVerdict(started) = "abort"
                     THEN UnlockReturn("already_started")
                     ELSE upc' = "pre_wait" /\ uret' = uret
       ELSE /\ upc' = "read_state"
            /\ UNCHANGED <<arrayQueried, preCheck, uret>>
    /\ polls' = 0
    /\ UNCHANGED <<fsState, keyfile, deferred, startCalls, startSent, steps,
                   start1, notStartedAfter, removeRan, unlockFrame>>

\* unlock.go:40-43: the bounded wait for the array to be stopped.
PreWait ==
    /\ upc = "pre_wait"
    /\ \E readOk \in BOOLEAN :
         LET w == WaitForArrayStatus("Stopped", fsState, readOk, polls)
         IN  /\ preCheck' = IF preCheck = "none" /\ w # "sleep"
                            THEN (IF w = "nil" THEN "passed" ELSE "timeout")
                            ELSE preCheck
             /\ w = "nil" =>
                   /\ upc' = "read_state"
                   /\ UNCHANGED <<uret, polls>>
             /\ w = "timeout" =>
                   /\ UnlockReturn("not_stopped")
                   /\ polls' = polls
             /\ w = "sleep" =>
                   /\ polls' = polls + 1
                   /\ UNCHANGED <<upc, uret>>
    /\ UNCHANGED <<fsState, keyfile, deferred, startCalls, startSent, steps,
                   arrayQueried, start1, notStartedAfter, removeRan,
                   unlockFrame>>

\* unlock.go:45-48: ReadStateFromFile.
ReadState ==
    /\ upc = "read_state"
    /\ \E ok \in BOOLEAN :
         /\ steps' = Append(steps, StepRec("ReadState", ok))
         /\ IF ok
            THEN upc' = "get_shares" /\ uret' = uret
            ELSE UnlockReturn("read_state")
    /\ UNCHANGED <<fsState, keyfile, deferred, polls, startCalls, startSent,
                   arrayQueried, preCheck, start1, notStartedAfter,
                   removeRan, unlockQuiet>>
    /\ fileOps' = fileOps \cup ReadStateOps

\* unlock.go:111-119: GetShares, by its return value.  It aborts when its
\* round-start check finds the array started.
UnlockGetShares ==
    /\ upc = "get_shares"
    /\ \E readOk \in BOOLEAN, enough \in BOOLEAN :
         LET a == shouldAbort(test, fsState, readOk)
             err == IF a.abort THEN "abort"
                    ELSE IF enough THEN "nil" ELSE "not_enough"
         IN  /\ arrayQueried' = (arrayQueried \/ a.queried)
             /\ steps' = Append(steps, StepRec("GetShares", err = "nil"))
             /\ IF AfterGetShares(err) = "return"
                THEN UnlockReturn("retrieve_secret")
                ELSE upc' = "combine" /\ uret' = uret
    /\ UNCHANGED <<fsState, keyfile, deferred, polls, startCalls, startSent,
                   preCheck, start1, notStartedAfter, removeRan,
                   unlockQuiet>>
    /\ fileOps' = fileOps \cup ReadPathsOps

\* unlock.go:128-133: CombineSecret.
UnlockCombine ==
    /\ upc = "combine"
    /\ \E ok \in BOOLEAN :
         /\ steps' = Append(steps, StepRec("CombineSecret", ok))
         /\ IF AfterCombine(ok) = "return"
            THEN UnlockReturn("retrieve_secret")
            ELSE upc' = "decrypt" /\ uret' = uret
    /\ UNCHANGED <<fsState, keyfile, deferred, polls, startCalls, startSent,
                   arrayQueried, preCheck, start1, notStartedAfter,
                   removeRan, unlockFrame>>

\* unlock.go:55-65: DecryptFile writes the keyfile and the removal is
\* deferred; an error returns before the defer statement.  A failed write
\* (encryption.go:195) may leave a part of the file behind.
UnlockDecrypt ==
    /\ upc = "decrypt"
    /\ \E err \in {"nil", "open", "write"} :
         /\ steps' = Append(steps, StepRec("DecryptFile", err = "nil"))
         /\ fileOps' = fileOps \cup DecryptFileOps(err)
         /\ CASE err = "nil" -> keyfile' = "present"
              [] err = "open" -> keyfile' = keyfile
              [] err = "write" -> keyfile' \in {keyfile, "partial"}
         /\ IF AfterDecryptFile(err) = "return"
            THEN /\ UnlockReturn("decrypt")
                 /\ deferred' = deferred
            ELSE /\ deferred' = TRUE
                 /\ upc' = AfterDefer(test)
                 /\ uret' = uret
    /\ UNCHANGED <<fsState, polls, startCalls, startSent, arrayQueried,
                   preCheck, start1, notStartedAfter, removeRan,
                   unlockQuiet>>

\* unlock.go:67-81: test mode returns what TestKeyfile returned.
UnlockTestKeyfile ==
    /\ upc = "test_keyfile"
    /\ \E ok \in BOOLEAN :
         /\ steps' = Append(steps, StepRec("TestKeyfile", ok))
         /\ UnlockReturn(IF ok THEN "nil" ELSE "test_keyfile")
    /\ UNCHANGED <<fsState, keyfile, deferred, polls, startCalls, startSent,
                   arrayQueried, preCheck, start1, notStartedAfter,
                   removeRan, unlockQuiet>>
    /\ fileOps' = fileOps \cup TestKeyfileOps

\* unlock.go:84-100: what Unlock does with the return value of StartArray.
StartArrayReturns(call, ok) ==
    /\ start1' = IF call = 1 THEN (IF ok THEN "ok" ELSE "err") ELSE start1
    /\ IF ok
       THEN upc' = "wait_started" /\ uret' = uret
       ELSE IF call = 1
       THEN upc' = "retry_delay" /\ uret' = uret
       ELSE UnlockReturn("start_array")

\* unraid.go:190: StartArray stats the literal path /root/keyfile.  It is
\* the configured keyfile when --keyfile has its default value, and
\* another file otherwise.
StatTarget(path, configured, atRoot) ==
    IF path = "/root/keyfile" THEN configured ELSE atRoot

\* unlock.go:83 and 96, unraid.go:190-193: StartArray is called and looks
\* for /root/keyfile.
StartArrayStat ==
    /\ upc = "start"
    /\ startCalls' = startCalls + 1
    /\ polls' = 0
    /\ \E statOk \in (IF StatTarget(keyPath, keyfile, rootKeyfile) = "present"
                       THEN BOOLEAN ELSE {FALSE}) :
         /\ IF statOk
            THEN upc' = "start_wait" /\ UNCHANGED <<uret, start1>>
            ELSE StartArrayReturns(startCalls + 1, FALSE)
         /\ startLog' = Append(startLog, [configured |-> keyfile,
                                          statOk |-> statOk,
                                          sawStopped |-> FALSE,
                                          sent |-> FALSE])
    /\ UNCHANGED <<fsState, keyfile, deferred, startSent, steps,
                   arrayQueried, preCheck, notStartedAfter, removeRan,
                   unlockStill, unlockArgs, startedSeen>>
    /\ fileOps' = fileOps \cup StartArrayOps

\* unraid.go:195-198: StartArray waits for the array to be stopped.  Each
\* check of the wait reads the array; the log keeps whether one read
\* Stopped.
StartArrayWait ==
    /\ upc = "start_wait"
    /\ \E readOk \in BOOLEAN :
         LET w == WaitForArrayStatus("Stopped", fsState, readOk, polls)
             n == Len(startLog)
         IN  /\ startLog' = [startLog EXCEPT ![n].sawStopped =
                                 @ \/ (readOk /\ fsState = "Stopped")]
             /\ w = "nil" =>
                   /\ upc' = "start_cmd"
                   /\ UNCHANGED <<uret, polls, start1>>
             /\ w = "timeout" =>
                   /\ StartArrayReturns(startCalls, FALSE)
                   /\ polls' = polls
             /\ w = "sleep" =>
                   /\ polls' = polls + 1
                   /\ UNCHANGED <<upc, uret, start1>>
    /\ arrayQueried' = TRUE
    /\ UNCHANGED <<fsState, keyfile, deferred, startCalls, startSent, steps,
                   preCheck, notStartedAfter, removeRan, unlockStill,
                   unlockArgs, startedSeen, fileOps>>

\* unraid.go:200-214: the start command goes to emhttpd.  An error can
\* come before the request is sent or after it.
StartArrayCommand ==
    /\ upc = "start_cmd"
    /\ \E sent \in BOOLEAN, ok \in BOOLEAN :
         /\ ok => sent
         /\ startSent' = IF sent THEN startSent + 1 ELSE startSent
         /\ startLog' = [startLog EXCEPT ![Len(startLog)].sent = sent]
         /\ StartArrayReturns(startCalls, ok)
    /\ polls' = 0
    /\ UNCHANGED <<fsState, keyfile, deferred, startCalls, steps,
                   arrayQueried, preCheck, notStartedAfter, removeRan,
                   unlockStill, unlockArgs, startedSeen, fileOps>>

\* unlock.go:86-94: after the retry delay the array is read once.
RetryDelay ==
    /\ upc = "retry_delay"
    /\ \E readOk \in BOOLEAN :
         LET started == VerifyArrayStatus("Started", fsState, readOk)
         IN  /\ notStartedAfter' = (notStartedAfter \/ ~started)
             /\ startedSeen' = IF readOk /\ fsState = "Started"
                               THEN "retry_check" ELSE startedSeen
             /\ IF RetryStart(started) = "return"
                THEN UnlockReturn("nil")
                ELSE upc' = "start" /\ uret' = uret
    /\ arrayQueried' = TRUE
    /\ UNCHANGED <<fsState, keyfile, deferred, polls, startCalls, startSent,
                   steps, preCheck, start1, removeRan, unlockStill,
                   unlockArgs, startLog, fileOps>>

\* unlock.go:102-107: the bounded wait for the array to be started.
WaitStarted ==
    /\ upc = "wait_started"
    /\ \E readOk \in BOOLEAN :
         LET w == WaitForArrayStatus("Started", fsState, readOk, polls)
         IN  /\ notStartedAfter' = (notStartedAfter \/ w # "nil")
             /\ startedSeen' = IF readOk /\ fsState = "Started"
                               THEN "final_wait" ELSE startedSeen
             /\ w = "nil" => UnlockReturn("nil") /\ polls' = polls
             /\ w = "timeout" => UnlockReturn("wait_started") /\ polls' = polls
             /\ w = "sleep" => polls' = polls + 1 /\ UNCHANGED <<upc, uret>>
    /\ arrayQueried' = TRUE
    /\ UNCHANGED <<fsState, keyfile, deferred, startCalls, startSent, steps,
                   preCheck, start1, removeRan, unlockStill, unlockArgs,
                   startLog, fileOps>>

\* unlock.go:65, util.go:96-112: the deferred RemoveKeyfile runs, then
\* Unlock has returned.
Deferred ==
    /\ upc = "deferred"
    /\ \E outcome \in RemoveOutcomes(keyfile) :
         /\ keyfile' = RemoveKeyfile(keyfile, outcome)
         /\ removeRan' = outcome
    /\ upc' = "returned"
    /\ UNCHANGED <<fsState, deferred, polls, startCalls, startSent, uret,
                   steps, arrayQueried, preCheck, start1, notStartedAfter,
                   unlockQuiet>>
    /\ fileOps' = fileOps \cup RemoveKeyfileOps

\* The environment: the array changes state while Unlock runs.
UnlockArrayChange ==
    /\ upc \notin {"idle", "returned"}
    /\ \E s \in FsStates \ {fsState} : fsState' = s
    /\ UNCHANGED <<unlockVars, unlockFrame>>

UnlockNext ==
    \/ Precheck
    \/ PreWait
    \/ ReadState
    \/ UnlockGetShares
    \/ UnlockCombine
    \/ UnlockDecrypt
    \/ UnlockTestKeyfile
    \/ StartArrayStat
    \/ StartArrayWait
    \/ StartArrayCommand
    \/ RetryDelay
    \/ WaitStarted
    \/ Deferred
    \/ UnlockArrayChange

SpecUnlock == UnlockInit /\ [][UnlockNext]_vars

UnlockReturned == upc = "returned"

\* ------------------------------------------- the empty list of paths

\* No path is configured; the threshold is at least 1 in every run.
EmptyList == paths = <<>>

\* The single round of a run: no second round, no sleep, no task.
SingleIdleRound ==
    /\ round = 1
    /\ pc # "sleep"
    /\ \A i \in 1..MaxPaths : task[i].st = "none"
    /\ triedPaths = {}
    /\ shares = <<>>

\* C33 as stated: with no path configured GetShares makes one round
\* without a fetch or a sleep and returns the not-enough-shares error.
C33_EmptyListNotEnough ==
    EmptyList =>
        /\ SingleIdleRound
        /\ result # NoReturn => result.err = "not_enough"

\* C33: with no path configured and a threshold of at least 1 GetShares
\* makes one round that starts no fetch, never sleeps and never loops; it
\* returns the not-enough-shares error, unless the check at the start of
\* that round, made outside test mode, read the array as Started: then it
\* returns the abort error.
C33_EmptyListOneRound ==
    EmptyList =>
        /\ SingleIdleRound
        /\ result # NoReturn =>
              result.err = IF sawStarted THEN "abort" ELSE "not_enough"

\* GetShares returned the not-enough-shares error outside test mode, the
\* array having been queried and not found Started.
C33_Witness ==
    /\ EmptyList
    /\ ~test
    /\ queried
    /\ ~sawStarted
    /\ round = 1
    /\ result = [shares |-> <<>>, err |-> "not_enough"]

\* ------------------------------------------------ properties of Unlock

DecryptSucceeded ==
    \E i \in 1..Len(steps) : steps[i].step = "DecryptFile" /\ steps[i].ok

\* C11 as stated: once DecryptFile has written the keyfile, the keyfile
\* is gone when Unlock has returned.
C11_KeyfileGoneAtReturn ==
    (UnlockReturned /\ DecryptSucceeded) => keyfile = "absent"

\* C11: on every return of Unlock after DecryptFile succeeded the removal
\* of the keyfile has been attempted before the return, and the keyfile
\* is still there at the return only if that removal itself failed (the
\* failure is logged and nothing else).
C11_RemovalAttemptedOnEveryExit ==
    /\ (UnlockReturned /\ DecryptSucceeded) =>
           /\ removeRan \in {"removed", "failed"}
           /\ (removeRan = "removed" => keyfile = "absent")
           /\ (keyfile # "absent" => removeRan = "failed")
    /\ (removeRan # "no") => DecryptSucceeded

C11_Witness ==
    /\ UnlockReturned
    /\ DecryptSucceeded
    /\ uret = "start_array"
    /\ startCalls = 2
    /\ removeRan = "removed"
    /\ keyfile = "absent"

\* C12: outside test mode Unlock looks at the array first.  When that
\* look reads Started, or the bounded wait for Stopped times out, Unlock
\* has returned an error and has not read the state, not fetched a share
\* and not written the keyfile; whenever it has read the state, the check
\* had passed.
C12_ArrayCheckedBeforeAnything ==
    /\ (~test /\ preCheck \in {"started", "timeout"}) =>
           /\ UnlockReturned
           /\ uret = (IF preCheck = "started" THEN "already_started"
                                              ELSE "not_stopped")
           /\ steps = <<>>
           /\ keyfile = "absent"
           /\ startCalls = 0
    /\ (~test /\ steps # <<>>) => preCheck = "passed"
    /\ (~test /\ upc # "precheck") => arrayQueried

C12_Witness ==
    /\ ~test
    /\ UnlockReturned
    /\ preCheck = "timeout"
    /\ polls = MaxPolls
    /\ uret = "not_stopped"
    /\ fsState = "Starting"

\* C13 as stated: at most two start instructions, and a second one
\* whenever the array was not seen Started after the first and Unlock
\* ended without success.
C13_RetriesWheneverNotStarted ==
    /\ startCalls <= 2
    /\ (~test /\ UnlockReturned /\ startCalls >= 1 /\ notStartedAfter
            /\ uret # "nil") => startCalls = 2

\* C13: StartArray is never called more than twice in one run of Unlock
\* and never in test mode.  It is called a second time exactly when the
\* first call returned an error and the read of the array after the retry
\* delay was not Started; after a first call that returned no error there
\* is no second call, whether or not the array reaches Started.
C13_RetriesOnceAfterFailedStart ==
    /\ startCalls <= 2
    /\ startSent <= startCalls
    /\ test => startCalls = 0
    /\ startCalls = 2 => (start1 = "err" /\ notStartedAfter)
    /\ start1 = "ok" => startCalls = 1
    /\ (UnlockReturned /\ start1 = "err") =>
           (notStartedAfter <=> startCalls = 2)

C13_Witness ==
    /\ UnlockReturned
    /\ start1 = "err"
    /\ startCalls = 2
    /\ startSent = 2
    /\ uret = "nil"
    /\ fsState = "Started"

UnlockOrder == <<"ReadState", "GetShares", "CombineSecret", "DecryptFile">>

\* C14: Unlock runs its steps in the order read state, GetShares,
\* CombineSecret, DecryptFile and then TestKeyfile (test mode) or
\* StartArray; a step runs only when every step before it succeeded, so
\* DecryptFile runs only after GetShares succeeded and StartArray only
\* after DecryptFile succeeded.
C14_StepsInOrder ==
    /\ Len(steps) <= Len(UnlockOrder) + 1
    /\ \A i \in 1..Len(steps) :
          /\ i <= Len(UnlockOrder) => steps[i].step = UnlockOrder[i]
          /\ i > Len(UnlockOrder) => steps[i].step = "TestKeyfile"
          /\ i < Len(steps) => steps[i].ok
    /\ (\E i \in 1..Len(steps) : steps[i].step = "DecryptFile") =>
           (steps[2].step = "GetShares" /\ steps[2].ok)
    /\ startCalls > 0 =>
           /\ Len(steps) = Len(UnlockOrder)
           /\ steps[Len(UnlockOrder)].step = "DecryptFile"
           /\ steps[Len(UnlockOrder)].ok
    /\ upc \in {"start", "start_wait", "start_cmd", "retry_delay",
                "wait_started", "test_keyfile"} =>
           (Len(steps) = Len(UnlockOrder) /\ steps[Len(steps)].ok)

C14_Witness ==
    /\ ~test
    /\ UnlockReturned
    /\ uret = "nil"
    /\ Len(steps) = Len(UnlockOrder)
    /\ \A i \in 1..Len(steps) : steps[i].ok
    /\ startCalls = 1
    /\ startSent = 1

\* C15: in test mode Unlock never calls StartArray, never sends a start
\* command and never reads or waits for the array state, neither itself
\* nor in GetShares; after a successful DecryptFile it runs TestKeyfile
\* and returns nil exactly when TestKeyfile succeeded.
C15_TestModeLeavesArrayAlone ==
    test =>
        /\ startCalls = 0
        /\ startSent = 0
        /\ ~arrayQueried
        /\ preCheck = "none"
        /\ polls = 0
        /\ start1 = "none"
        /\ upc \notin {"pre_wait", "start", "start_wait", "start_cmd",
                       "retry_delay", "wait_started"}
        /\ (UnlockReturned /\ DecryptSucceeded) =>
               /\ Len(steps) = Len(UnlockOrder) + 1
               /\ steps[Len(steps)].step = "TestKeyfile"
               /\ (uret = "nil") <=> steps[Len(steps)].ok
               /\ uret \in {"nil", "test_keyfile"}
        /\ (UnlockReturned /\ uret = "nil") => DecryptSucceeded

C15_Witness ==
    /\ test
    /\ UnlockReturned
    /\ DecryptSucceeded
    /\ uret = "test_keyfile"
    /\ fsState = "Started"
    /\ removeRan = "removed"

\* ================================================================
\* The secret sharing engine (secrets/secret.go, secrets/hash.go).
\* A byte is a small number and a byte string a sequence of bytes.  The
\* group of the sharing scheme is the field of integers modulo
\* FieldOrder; a text is a sequence of the digits 0..3, two for a byte,
\* and InvalidChar stands for a character outside the base64 alphabet.
\* ================================================================

MaxTotal == 3          \* largest threshold and number of shares
FieldOrder == 5        \* the order of the scalar field (a prime)
ScalarLength == 32     \* bytes of an encoded scalar
SignatureBytes == 32   \* bytes of a tag
InvalidChar == 4

Scalars == 0..(FieldOrder - 1)

ModInverse(a) == CHOOSE x \in 1..(FieldOrder - 1) : (a * x) % FieldOrder = 1

\* The value at x of the polynomial with the coefficients poly.
RECURSIVE Eval(_, _)
Eval(poly, x) ==
    IF poly = <<>> THEN 0
    ELSE (Head(poly) + x * Eval(Tail(poly), x)) % FieldOrder

\* Scalar.Encode: little endian, fixed length.
EncodeScalar(v) == [i \in 1..ScalarLength |-> IF i = 1 THEN v ELSE 0]

\* secretsharing.Shard: the shares are the points 1..shares of a random
\* polynomial of degree threshold - 1 whose constant term is the secret.
Shard(secretKey, thr, n, coeffs) ==
    IF thr = 0 \/ n < thr
    THEN [err |-> "shard", shares |-> <<>>]
    ELSE [err |-> "nil",
          shares |-> [i \in 1..n |->
                        [id |-> i, value |-> Eval(<<secretKey>> \o coeffs, i)]]]

\* KeyShare.Encode and KeyShare.Decode: identifier, then value.
EncodeShare(ks) == <<ks.id, ks.value>>

DecodeShare(bytes) ==
    IF Len(bytes) # 2 \/ bytes[1] = 0
    THEN [err |-> "decode", share |-> [id |-> 0, value |-> 0]]
    ELSE [err |-> "nil", share |-> [id |-> bytes[1], value |-> bytes[2]]]

KeyByte(key) == IF key = SigningKey THEN 1 ELSE 2

\* hash.go:40-49: HMAC-SHA256, taken as free of collisions: the tag spells
\* out the key and the message.
calculateHMAC(key, message) ==
    [i \in 1..SignatureBytes |->
        IF i = 1 THEN KeyByte(key)
        ELSE IF i - 1 <= Len(message) THEN message[i - 1] + 1
        ELSE 0]

\* hash.go:31-38.
SignShare(key, message) == message \o calculateHMAC(key, message)

\* hash.go:51-70.
VerifyShare_NoComparison(signedMessage, key) ==
    IF Len(signedMessage) < SignatureBytes
    THEN [err |-> "too_short", message |-> <<>>]
    ELSE [err |-> "nil",
          message |-> SubSeq(signedMessage, 1,
                             Len(signedMessage) - SignatureBytes)]

VerifyShare(signedMessage, key) ==
    IF Len(signedMessage) < SignatureBytes
    THEN [err |-> "too_short", message |-> <<>>]
    ELSE LET message == SubSeq(signedMessage, 1,
                               Len(signedMessage) - SignatureBytes)
             signature == SubSeq(signedMessage,
                                 Len(signedMessage) - SignatureBytes + 1,
                                 Len(signedMessage))
         IN  IF signature # calculateHMAC(key, message)
             THEN [err |-> "invalid_signature", message |-> <<>>]
             ELSE [err |-> "nil", message |-> message]

\* base64.StdEncoding.EncodeToString and DecodeString.
B64Encode(bytes) ==
    [i \in 1..(2 * Len(bytes)) |->
        IF i % 2 = 1 THEN bytes[(i + 1) \div 2] \div 4
                     ELSE bytes[i \div 2] % 4]

B64Decode(text) ==
    IF Len(text) % 2 # 0 \/ \E i \in 1..Len(text) : text[i] \notin 0..3
    THEN [err |-> "b64", bytes |-> <<>>]
    ELSE [err |-> "nil",
          bytes |-> [i \in 1..(Len(text) \div 2) |->
                        4 * text[2 * i - 1] + text[2 * i]]]

\* secret.go:71-90: GetShare on a text.
GetShareBytes(shareStr, signingKey) ==
    LET none == [id |-> 0, value |-> 0]
        b == B64Decode(shareStr)
    IN  IF b.err # "nil" THEN [err |-> "b64", share |-> none]
        ELSE LET v == VerifyShare(b.bytes, signingKey)
             IN  IF v.err # "nil" THEN [err |-> "verify", share |-> none]
                 ELSE LET d == DecodeShare(v.message)
                      IN  IF d.err # "nil"
                          THEN [err |-> "decode", share |-> none]
                          ELSE [err |-> "nil", share |-> d.share]

\* secret.go:20-60, with the random values it draws as arguments.
CreateSecret(thr, n, secretKey, coeffs, signingKey, nonce) ==
    LET sh == Shard(secretKey, thr, n, coeffs)
    IN  IF sh.err # "nil"
        THEN [NoSecret EXCEPT !.err = "shard"]
        ELSE [err |-> "nil",
              Secret |-> EncodeScalar(secretKey),
              SigningKey |-> signingKey,
              Nonce |-> nonce,
              Shares |-> [i \in 1..n |->
                            SignShare(signingKey, EncodeShare(sh.shares[i]))]]

\* The Lagrange coefficient at 0 of the point xj among the points xs.
RECURSIVE LagrangeProduct(_, _)
LagrangeProduct(xj, xs) ==
    IF xs = {} THEN 1
    ELSE LET xm == CHOOSE x \in xs : TRUE
         IN  (xm * ModInverse((xm - xj + FieldOrder) % FieldOrder)
                 * LagrangeProduct(xj, xs \ {xm})) % FieldOrder

RECURSIVE InterpolateSum(_, _)
InterpolateSum(rest, all) ==
    IF rest = {} THEN 0
    ELSE LET s == CHOOSE x \in rest : TRUE
         IN  (s.value * LagrangeProduct(s.id, {t.id : t \in all} \ {s.id})
                 + InterpolateSum(rest \ {s}, all)) % FieldOrder

\* secret.go:62-69: CombineShares interpolates through every share it is
\* given.
CombineSecret_OneShare(keyShares) ==
    IF keyShares = {}
    THEN [err |-> "combine", secret |-> <<>>]
    ELSE [err |-> "nil",
          secret |-> EncodeScalar((CHOOSE x \in keyShares : TRUE).value)]

CombineSecret_RefusesOne(keyShares) ==
    IF Cardinality(keyShares) < 2
    THEN [err |-> "combine", secret |-> <<>>]
    ELSE [err |-> "nil",
          secret |-> EncodeScalar(InterpolateSum(keyShares, keyShares))]

CombineSecret(keyShares) ==
    IF keyShares = {} \/ \E a, b \in keyShares : a # b /\ a.id = b.id
    THEN [err |-> "combine", secret |-> <<>>]
    ELSE [err |-> "nil",
          secret |-> EncodeScalar(InterpolateSum(keyShares, keyShares))]

\* The texts a caller can hand to GetShare for a signed share: the share
\* as printed, or a damaged one, and the key it is checked under.
Kinds == {"genuine", "not_b64", "short", "flipped", "payload", "wrong_key",
          "malformed"}

Present(signed, kind, key) ==
    LET n == Len(signed)
        flip(b) == (b + 1) % 16
    IN  CASE kind = "genuine" -> [text |-> B64Encode(signed), key |-> key]
          [] kind = "not_b64" ->
                [text |-> [B64Encode(signed) EXCEPT ![1] = InvalidChar],
                 key |-> key]
          [] kind = "short" ->
                [text |-> B64Encode(SubSeq(signed, n - SignatureBytes + 2, n)),
                 key |-> key]
          [] kind = "flipped" ->
                [text |-> B64Encode([signed EXCEPT ![n] = flip(@)]),
                 key |-> key]
          [] kind = "payload" ->
                [text |-> B64Encode([signed EXCEPT ![2] = flip(@)]),
                 key |-> key]
          [] kind = "wrong_key" ->
                [text |-> B64Encode(signed), key |-> OtherKey]
          [] kind = "malformed" ->
                [text |-> B64Encode(SignShare(key, <<0, signed[2]>>)),
                 key |-> key]

secretFrame == <<collectVars, unlockVars, cipherVars, setupVars, extraVars>>

SecretInit ==
    /\ test = FALSE
    /\ fsState = "Stopped"
    /\ CollectIdle
    /\ UnlockIdle
    /\ CipherIdle
    /\ SetupIdle
    /\ ExtraIdle
    /\ spc = "create"
    /\ secArgs \in [threshold : 0..MaxTotal, shares : 0..MaxTotal]
    /\ sec = NoSecret
    /\ decoded = {}
    /\ presented = NoPresented
    /\ combined = NoCombined

\* CreateSecret is called; it draws the secret and the polynomial.
SecretCreate ==
    /\ spc = "create"
    /\ \E secretKey \in Scalars,
          coeffs \in [1..(IF secArgs.threshold = 0 THEN 0
                          ELSE secArgs.threshold - 1) -> Scalars] :
         /\ sec' = CreateSecret(secArgs.threshold, secArgs.shares, secretKey,
                                coeffs, SigningKey, <<>>)
         /\ spc' = IF sec'.err = "nil" THEN "use" ELSE "failed"
    /\ UNCHANGED <<secArgs, decoded, presented, combined, secretFrame>>

\* GetShare is called on the text of share i, damaged or not.
GetShareCall(i, kind) ==
    LET p == Present(sec.Shares[i], kind, sec.SigningKey)
        r == GetShareBytes(p.text, p.key)
    IN  /\ presented' = [kind |-> kind, err |-> r.err, id |-> r.share.id]
        /\ decoded' = IF r.err = "nil" THEN decoded \cup {r.share}
                                       ELSE decoded

\* secret_test.go:66-98: a printed share is decoded and kept for
\* CombineSecret.
SecretGetShare ==
    /\ spc = "use"
    /\ \E i \in 1..Len(sec.Shares) : GetShareCall(i, "genuine")
    /\ UNCHANGED <<spc, secArgs, sec, combined, secretFrame>>

\* CombineSecret is called on the shares decoded so far.
SecretCombine ==
    /\ spc = "use"
    /\ decoded # {}
    /\ combined' = CombineSecret(decoded)
    /\ spc' = "combined"
    /\ UNCHANGED <<secArgs, sec, decoded, presented, secretFrame>>

SecretNext ==
    \/ SecretCreate
    \/ SecretGetShare
    \/ SecretCombine

SpecSecret == SecretInit /\ [][SecretNext]_vars

\* secret_test.go:140-208: GetShare is called once, on any of the texts.
SecretPresent ==
    /\ spc = "use"
    /\ \E i \in 1..Len(sec.Shares), kind \in Kinds : GetShareCall(i, kind)
    /\ spc' = "presented"
    /\ UNCHANGED <<secArgs, sec, combined, secretFrame>>

GetShareNext ==
    \/ SecretCreate
    \/ SecretPresent

SpecGetShare == SecretInit /\ [][GetShareNext]_vars

\* -------------------------------------- properties of the sharing engine

\* C17: for 1 <= threshold <= n CreateSecret returns n signed shares, each
\* of which GetShare decodes under the returned signing key, and
\* CombineSecret of any threshold or more of the decoded shares returns
\* the secret that CreateSecret returned, byte for byte.
C17_AnyThresholdSubsetRecombines ==
    /\ (spc # "create" /\ 1 <= secArgs.threshold
            /\ secArgs.threshold <= secArgs.shares) =>
           /\ sec.err = "nil"
           /\ Len(sec.Shares) = secArgs.shares
    /\ presented.kind = "genuine" =>
           (presented.err = "nil" /\ presented.id \in 1..secArgs.shares)
    /\ (spc = "combined" /\ Cardinality(decoded) >= secArgs.threshold) =>
           /\ combined.err = "nil"
           /\ combined.secret = sec.Secret

C17_Witness ==
    /\ spc = "combined"
    /\ secArgs = [threshold |-> 2, shares |-> 3]
    /\ {d.id : d \in decoded} = {1, 3}
    /\ \E d \in decoded : d.value # sec.Secret[1]
    /\ combined.err = "nil"
    /\ combined.secret = sec.Secret
    /\ sec.Secret[1] = 3

\* CombineSecret was called on at least one and fewer than threshold
\* distinct shares of the secret.
CombinedTooFew ==
    /\ spc = "combined"
    /\ Cardinality({d.id : d \in decoded}) = Cardinality(decoded)
    /\ Cardinality(decoded) < secArgs.threshold

C18_GetShareOnlyForValidTag ==
    /\ presented.err = "nil" => presented.kind \in {"none", "genuine"}
    /\ presented.kind = "genuine" => presented.err = "nil"
    /\ presented.kind = "not_b64" => presented.err = "b64"
    /\ presented.kind \in {"short", "flipped", "payload", "wrong_key"} =>
           presented.err = "verify"
    /\ presented.kind = "malformed" => presented.err = "decode"
    /\ \A d \in decoded :
          \E i \in 1..Len(sec.Shares) :
             /\ sec.Shares[i][1] = d.id
             /\ sec.Shares[i][2] = d.value
             /\ d.id = presented.id
    /\ presented.err # "nil" => (decoded = {} /\ presented.id = 0)

C18_Witness ==
    /\ spc = "presented"
    /\ presented.kind = "flipped"
    /\ presented.err = "verify"
    /\ decoded = {}
    /\ secArgs = [threshold |-> 2, shares |-> 2]

\* ================================================================
\* The envelope cipher (encryption/encryption.go).  AES-256-GCM is taken
\* as an ideal authenticated cipher: the body is the data masked by a
\* stream made from key and nonce, and the tag names the key, the nonce
\* and the body it was made for.
\* ================================================================

MaxPlain == 2             \* longest plaintext keyfile
MaxPadExtra == 1          \* padding bytes beyond MinPaddingLength
EncryptionKeyBytes == 32
NonceBytes == 12
MinPaddingLength == 64

Plaintexts == UNION {[1..n -> {0, 1}] : n \in 0..MaxPlain}

\* generatePadding (encryption.go:60-77).
Paddings == {[i \in 1..(MinPaddingLength + e) |-> 5] : e \in 0..MaxPadExtra}

\* Keys and nonces around the required length: one byte short, exact, and
\* one byte longer.
KeyChoices(length, fills) ==
    {[i \in 1..n |-> IF i <= length THEN f ELSE 3] :
        f \in fills, n \in {length, length + 1}}
    \cup {[i \in 1..(length - 1) |-> 1]}

\* encryption.go:48-58.
trimKey_KeepsLength(key, length) ==
    IF Len(key) < length
    THEN [err |-> "short", key |-> <<>>]
    ELSE [err |-> "nil", key |-> key]

trimKey(key, length) ==
    IF Len(key) < length
    THEN [err |-> "short", key |-> <<>>]
    ELSE [err |-> "nil", key |-> SubSeq(key, 1, length)]

\* json.Marshal and json.Unmarshal of encryptionData (encryption.go:43-46):
\* the length of the plaintext, the plaintext, the padding.
Marshal(envelope) ==
    <<Len(envelope.Plaintext)>> \o envelope.Plaintext \o envelope.Padding

Unmarshal_KeepsPadding(data) ==
    IF data = <<>> \/ data[1] > Len(data) - 1
    THEN [err |-> "json", Plaintext |-> <<>>, Padding |-> <<>>]
    ELSE [err |-> "nil", Plaintext |-> Tail(data), Padding |-> <<>>]

Unmarshal(data) ==
    IF data = <<>> \/ data[1] > Len(data) - 1
    THEN [err |-> "json", Plaintext |-> <<>>, Padding |-> <<>>]
    ELSE [err |-> "nil",
          Plaintext |-> SubSeq(data, 2, 1 + data[1]),
          Padding |-> SubSeq(data, 2 + data[1], Len(data))]

Keystream(key, nonce, i) == (key[1] + 2 * nonce[1] + i) % 16

GcmTag(key, nonce, body) ==
    [key |-> key, nonce |-> nonce, body |-> body, flipped |-> FALSE]

\* gcm.Seal and gcm.Open.
Seal(key, nonce, data) ==
    LET body == [i \in 1..Len(data) |->
                    (data[i] + Keystream(key, nonce, i)) % 16]
    IN  [exists |-> TRUE, body |-> body, tag |-> GcmTag(key, nonce, body)]

Unmasked(key, nonce, c) ==
    [i \in 1..Len(c.body) |-> (c.body[i] + 16 - Keystream(key, nonce, i)) % 16]

Open_NoAuthentication(key, nonce, c) ==
    [err |-> "nil", data |-> Unmasked(key, nonce, c)]

Open(key, nonce, c) ==
    IF c.tag # GcmTag(key, nonce, c.body)
    THEN [err |-> "auth", data |-> <<>>]
    ELSE [err |-> "nil", data |-> Unmasked(key, nonce, c)]

\* encryption.go:79-101.
encryptData(data, key, nonce) ==
    LET k == trimKey(key, EncryptionKeyBytes)
        n == trimKey(nonce, NonceBytes)
    IN  IF k.err # "nil" THEN [err |-> "trim_key", ciphertext |-> NoArtifact]
        ELSE IF n.err # "nil"
        THEN [err |-> "trim_nonce", ciphertext |-> NoArtifact]
        ELSE [err |-> "nil", ciphertext |-> Seal(k.key, n.key, data)]

\* encryption.go:104-144, with the padding it draws as an argument.
EncryptFile(file, key, nonce, padding) ==
    IF ~file.exists THEN [err |-> "read", ciphertext |-> NoArtifact]
    ELSE encryptData(Marshal([Plaintext |-> file.data, Padding |-> padding]),
                     key, nonce)

\* encryption.go:147-201: the error, and the bytes written when there is
\* none.
DecryptFile(c, key, nonce) ==
    LET k == trimKey(key, EncryptionKeyBytes)
        n == trimKey(nonce, NonceBytes)
    IN  IF ~c.exists THEN [err |-> "read", plaintext |-> <<>>]
        ELSE IF k.err # "nil" THEN [err |-> "trim_key", plaintext |-> <<>>]
        ELSE IF n.err # "nil" THEN [err |-> "trim_nonce", plaintext |-> <<>>]
        ELSE LET o == Open(k.key, n.key, c)
             IN  IF o.err # "nil" THEN [err |-> "decrypt", plaintext |-> <<>>]
                 ELSE LET e == Unmarshal(o.data)
                      IN  IF e.err # "nil"
                          THEN [err |-> "deserialize", plaintext |-> <<>>]
                          ELSE [err |-> "nil", plaintext |-> e.Plaintext]

\* One byte of the encrypted file is flipped: the first, or one of the tag.
Tamper(c, where) ==
    IF where = "body"
    THEN [c EXCEPT !.body[1] = (@ + 1) % 16]
    ELSE [c EXCEPT !.tag.flipped = TRUE]

cipherFrame == <<collectVars, unlockVars, secretVars, setupVars, extraVars>>

CipherInit ==
    /\ test = FALSE
    /\ fsState = "Stopped"
    /\ CollectIdle
    /\ UnlockIdle
    /\ SecretIdle
    /\ SetupIdle
    /\ ExtraIdle
    /\ cpc = "encrypt"
    /\ cin \in [file : {NoFile} \cup {[exists |-> TRUE, data |-> p] :
                                        p \in Plaintexts},
                key : {<<>>}, nonce : {<<>>}, tampered : {"no"}]
    /\ artifact = NoArtifact
    /\ cdec = [key |-> <<>>, nonce |-> <<>>, err |-> "pending"]
    /\ output = NoFile

\* EncryptFile is called.
CipherEncrypt ==
    /\ cpc = "encrypt"
    /\ \E key \in KeyChoices(EncryptionKeyBytes, {1}),
          nonce \in KeyChoices(NonceBytes, {1}),
          padding \in Paddings :
         LET r == EncryptFile(cin.file, key, nonce, padding)
         IN  /\ cin' = [cin EXCEPT !.key = key, !.nonce = nonce]
             /\ artifact' = IF r.err = "nil" THEN r.ciphertext ELSE artifact
             /\ cpc' = IF r.err = "nil" THEN "sealed" ELSE "failed"
    /\ UNCHANGED <<cdec, output, cipherFrame>>

\* The encrypted file is damaged on disk.
CipherTamper ==
    /\ cpc = "sealed"
    /\ cin.tampered = "no"
    /\ \E where \in {"body", "tag"} :
         /\ artifact' = Tamper(artifact, where)
         /\ cin' = [cin EXCEPT !.tampered = where]
    /\ UNCHANGED <<cpc, cdec, output, cipherFrame>>

\* DecryptFile is called.
CipherDecrypt ==
    /\ cpc = "sealed"
    /\ \E key \in KeyChoices(EncryptionKeyBytes, {1, 2}),
          nonce \in KeyChoices(NonceBytes, {1, 2}) :
         LET r == DecryptFile(artifact, key, nonce)
         IN  /\ cdec' = [key |-> key, nonce |-> nonce, err |-> r.err]
             /\ output' = IF r.err = "nil"
                          THEN [exists |-> TRUE, data |-> r.plaintext]
                          ELSE output
    /\ cpc' = "decrypted"
    /\ UNCHANGED <<cin, artifact, cipherFrame>>

CipherNext ==
    \/ CipherEncrypt
    \/ CipherTamper
    \/ CipherDecrypt

SpecCipher == CipherInit /\ [][CipherNext]_vars

\* --------------------------------------------- properties of the cipher

SameKeyAndNonce ==
    /\ SubSeq(cdec.key, 1, EncryptionKeyBytes)
           = SubSeq(cin.key, 1, EncryptionKeyBytes)
    /\ SubSeq(cdec.nonce, 1, NonceBytes) = SubSeq(cin.nonce, 1, NonceBytes)

LongEnough(args) ==
    Len(args.key) >= EncryptionKeyBytes /\ Len(args.nonce) >= NonceBytes

\* C19: with a key of at least 32 bytes and a nonce of at least 12 bytes
\* EncryptFile succeeds on every plaintext, the empty one included, and
\* DecryptFile of its output under the same key and nonce writes exactly
\* the plaintext, without the padding.
C19_RoundTrip ==
    /\ (cpc # "encrypt" /\ cin.file.exists /\ LongEnough(cin)) =>
           cpc # "failed"
    /\ (cpc = "decrypted" /\ cin.tampered = "no"
            /\ cdec.key = cin.key /\ cdec.nonce = cin.nonce) =>
           /\ cdec.err = "nil"
           /\ output = cin.file

C19_Witness ==
    /\ cpc = "decrypted"
    /\ cin.tampered = "no"
    /\ cdec.key = cin.key
    /\ cdec.nonce = cin.nonce
    /\ Len(cin.key) = EncryptionKeyBytes + 1
    /\ cin.file.data = <<>>
    /\ output.exists
    /\ output.data = <<>>
    /\ Len(artifact.body) = 1 + MinPaddingLength + MaxPadExtra

\* C20: DecryptFile under a key or a nonce other than the one of
\* EncryptFile, or on an encrypted file with one flipped byte, returns the
\* decryption error of the failed authentication, not that of the
\* deserialization, and writes no output; an output that is written is the
\* plaintext.
C20_NeverWrongOutput ==
    /\ (cpc = "decrypted" /\ LongEnough(cdec)
            /\ (cin.tampered # "no" \/ ~SameKeyAndNonce)) =>
           /\ cdec.err = "decrypt"
           /\ ~output.exists
    /\ output.exists => (cdec.err = "nil" /\ output.data = cin.file.data)
    /\ cdec.err \notin {"nil", "pending"} => ~output.exists

C20_Witness ==
    /\ cpc = "decrypted"
    /\ cin.tampered = "body"
    /\ cdec.key = cin.key
    /\ cdec.nonce = cin.nonce
    /\ cdec.err = "decrypt"
    /\ ~output.exists
    /\ cin.file.data = <<1, 0>>

\* C21: EncryptFile and DecryptFile with a key shorter than 32 bytes or a
\* nonce shorter than 12 bytes fail and write nothing; longer ones count by
\* their first 32 and 12 bytes only, so DecryptFile under a key and a nonce
\* that agree with those of EncryptFile on these prefixes writes the
\* plaintext.
C21_ShortRejectedLongTruncated ==
    /\ (cpc # "encrypt" /\ ~LongEnough(cin)) =>
           /\ cpc = "failed"
           /\ artifact = NoArtifact
    /\ (cpc = "decrypted" /\ ~LongEnough(cdec)) =>
           /\ cdec.err \in {"trim_key", "trim_nonce"}
           /\ output = NoFile
    /\ (cpc = "decrypted" /\ cin.tampered = "no" /\ LongEnough(cdec)
            /\ SameKeyAndNonce) =>
           /\ cdec.err = "nil"
           /\ output = cin.file

\* The file was sealed under a 33-byte key and a 12-byte nonce and opened
\* under a 32-byte key and a 13-byte nonce.
C21_Witness ==
    /\ cpc = "decrypted"
    /\ Len(cin.key) = EncryptionKeyBytes + 1
    /\ Len(cdec.key) = EncryptionKeyBytes
    /\ Len(cin.nonce) = NonceBytes
    /\ Len(cdec.nonce) = NonceBytes + 1
    /\ cdec.err = "nil"
    /\ output = [exists |-> TRUE, data |-> <<1, 0>>]

\* ------------------------------------------ Setup, then an Unlock of it
\* Setup seals the keyfile and persists the state; the Unlock that follows
\* reads the state, decodes printed shares, recombines the secret and opens
\* the encrypted file.  The keyfile is `output`, the encrypted file
\* `artifact`; `cin` keeps what EncryptFile was given, `cdec` what
\* DecryptFile was given.

\* The keyfiles Setup can find.
SetupKeyfiles == {<<0, 1>>, <<1>>}

\* secret.go:27: the polynomial coefficients Shard can draw here.
SetupCoeffs == {1, 3}

\* secret.go:42: the nonces GenerateRandomKey(nonceBytes) can draw.
SetupNonces == {[i \in 1..NonceBytes |-> f] : f \in {1, 2}}

\* state.go:49-82: the state as json.MarshalIndent writes it, byte arrays
\* in base64.  The verification key plays no part in sealing or opening
\* and is left out.
WriteStateToFile(signingKey, nonce, thr) ==
    [exists |-> TRUE, signingKey |-> signingKey, nonce |-> B64Encode(nonce),
     threshold |-> thr]

\* state.go:85-101: ReadFile and json.Unmarshal; nothing is validated.
ReadStateFromFile(file) ==
    LET n == B64Decode(file.nonce)
    IN  IF ~file.exists
        THEN [err |-> "read", SigningKey |-> SigningKey, Nonce |-> <<>>,
              Threshold |-> 0]
        ELSE IF n.err # "nil"
        THEN [err |-> "unmarshal", SigningKey |-> SigningKey, Nonce |-> <<>>,
              Threshold |-> 0]
        ELSE [err |-> "nil", SigningKey |-> file.signingKey,
              Nonce |-> n.bytes, Threshold |-> file.threshold]

MaxDevices == 2      \* encrypted volumes lsblk lists

\* unraid.go:68-99: for each volume lsblk lists, whether cryptsetup opens
\* it with the keyfile.
DeviceLists == UNION {[1..n -> BOOLEAN] : n \in 0..MaxDevices}

\* unraid.go:49-106: TestKeyfile.
TestKeyfile(exists, lsblkOk, opens) ==
    IF ~exists THEN "stat"
    ELSE IF ~lsblkOk THEN "lsblk"
    ELSE IF \E i \in 1..Len(opens) :
               opens[i] /\ \A j \in 1..(i - 1) : ~opens[j]
    THEN "nil"
    ELSE "no_device"

\* setup.go:16-19: Setup returns when TestKeyfile failed.
AfterTestKeyfile_GoesOn(err) == "setup_create"

AfterTestKeyfile(err) == IF err = "nil" THEN "setup_create" ELSE "setup_failed"

\* Setup hands the nonce of the secret to WriteStateToFile (interfaces.go:52
\* declares the parameter) and to EncryptFile (interfaces.go:45).
SetupStateNonce(secret) == secret.Nonce

SetupSealNonce(secret) == secret.Nonce

\* unlock.go:55-60: the nonce Unlock hands to DecryptFile.
UnlockNonce_Regenerated(state) == [i \in 1..NonceBytes |-> 3]

UnlockNonce(state) == state.Nonce

precheckFrame == <<collectVars, unlockVars, extraVars>>

setupFrame == <<precheckFrame, precheck>>

SetupInit ==
    /\ test = FALSE
    /\ fsState = "Stopped"
    /\ CollectIdle
    /\ UnlockIdle
    /\ spc = "idle"
    /\ secArgs \in {a \in [threshold : 1..MaxThreshold, shares : 1..MaxTotal] :
                      a.threshold <= a.shares}
    /\ sec = NoSecret
    /\ decoded = {}
    /\ presented = NoPresented
    /\ combined = NoCombined
    /\ cpc = "idle"
    /\ cin = [file |-> NoFile, key |-> <<>>, nonce |-> <<>>, tampered |-> "no"]
    /\ artifact = NoArtifact
    /\ cdec = [key |-> <<>>, nonce |-> <<>>, err |-> "pending"]
    /\ output \in {NoFile} \cup {[exists |-> TRUE, data |-> p] :
                                    p \in SetupKeyfiles}
    /\ wpc = "setup_test"
    /\ stateFile = NoState
    /\ precheck = NoPrecheck
    /\ ExtraIdle

\* setup.go:16-19: the keyfile is tested against the encrypted volumes.
SetupTestKeyfile ==
    /\ wpc = "setup_test"
    /\ \E lsblkOk \in BOOLEAN, opens \in DeviceLists :
         LET err == TestKeyfile(output.exists, lsblkOk, opens)
         IN  /\ precheck' = [err |-> err, exists |-> output.exists,
                             lsblk |-> lsblkOk,
                             opened |-> \E i \in 1..Len(opens) : opens[i],
                             keyfile |-> output]
             /\ wpc' = AfterTestKeyfile(err)
    /\ UNCHANGED <<stateFile, secretVars, cipherVars, precheckFrame>>

\* setup.go:23-26: CreateSecret draws the secret, the polynomial and the
\* nonce.
SetupCreateSecret ==
    /\ wpc = "setup_create"
    /\ \E secretKey \in Scalars,
          coeffs \in [1..(secArgs.threshold - 1) -> SetupCoeffs],
          nonce \in SetupNonces :
         /\ sec' = CreateSecret(secArgs.threshold, secArgs.shares, secretKey,
                                coeffs, SigningKey, nonce)
         /\ wpc' = IF sec'.err = "nil" THEN "setup_state" ELSE "setup_failed"
    /\ UNCHANGED <<stateFile, spc, secArgs, decoded, presented, combined,
                   cipherVars, setupFrame>>

\* setup.go:28-37: the state is written; the write can fail.
SetupWriteState ==
    /\ wpc = "setup_state"
    /\ \E ok \in BOOLEAN :
         /\ stateFile' = IF ok
                         THEN WriteStateToFile(sec.SigningKey,
                                               SetupStateNonce(sec),
                                               secArgs.threshold)
                         ELSE stateFile
         /\ wpc' = IF ok THEN "setup_encrypt" ELSE "setup_failed"
    /\ UNCHANGED <<secretVars, cipherVars, setupFrame>>

\* encryption.go:118-141: what can go wrong in EncryptFile for a keyfile
\* that is there: generatePadding fails, or WriteFile does.
EncryptFailures == {"none", "padding", "write"}

\* What a failed WriteFile can leave of the file it had opened and
\* truncated.
Truncated == [exists |-> TRUE, body |-> <<>>, tag |-> NoTag]

\* setup.go:48-52: an error of EncryptFile ends Setup; RemoveKeyfile is
\* called after a nil return only.
AfterEncryptFile_AlwaysRemoves(err) == "setup_remove"

AfterEncryptFile(err) ==
    IF err # "nil" THEN "setup_failed" ELSE "setup_remove"

\* setup.go:41-50: the keyfile is sealed under the secret.
SetupEncryptFile ==
    /\ wpc = "setup_encrypt"
    /\ \E padding \in Paddings, fail \in EncryptFailures :
         LET nonce == SetupSealNonce(sec)
             r == EncryptFile(output, sec.Secret, nonce, padding)
             err == IF r.err # "nil" THEN r.err
                    ELSE IF fail # "none" THEN fail ELSE "nil"
         IN  /\ cin' = [file |-> output, key |-> sec.Secret, nonce |-> nonce,
                        tampered |-> "no"]
             /\ CASE err = "nil" -> artifact' = r.ciphertext
                  [] err = "write" -> artifact' \in {artifact, Truncated}
                  [] OTHER -> artifact' = artifact
             /\ wpc' = AfterEncryptFile(err)
    /\ UNCHANGED <<stateFile, cpc, cdec, output, secretVars, setupFrame>>

\* setup.go:52-71: the keyfile is removed and the shares are printed.
SetupRemoveKeyfile ==
    /\ wpc = "setup_remove"
    /\ \E outcome \in RemoveOutcomes("present") :
         output' = IF RemoveKeyfile("present", outcome) = "absent"
                   THEN NoFile ELSE output
    /\ wpc' = "setup_done"
    /\ UNCHANGED <<stateFile, cpc, cin, artifact, cdec, secretVars,
                   setupFrame>>

\* unlock.go:45-48: Unlock reads the state.
AfterSetupReadState ==
    /\ wpc = "setup_done"
    /\ wpc' = IF ReadStateFromFile(stateFile).err = "nil"
              THEN "unlock_shares" ELSE "unlock_failed"
    /\ UNCHANGED <<stateFile, secretVars, cipherVars, setupFrame>>

\* get.go: a printed share is fetched and decoded under the signing key of
\* the state.
AfterSetupGetShare ==
    /\ wpc = "unlock_shares"
    /\ \E i \in 1..Len(sec.Shares) :
         LET r == GetShareBytes(B64Encode(sec.Shares[i]),
                                ReadStateFromFile(stateFile).SigningKey)
         IN  decoded' = IF r.err = "nil" THEN decoded \cup {r.share}
                                         ELSE decoded
    /\ UNCHANGED <<wpc, stateFile, spc, secArgs, sec, presented, combined,
                   cipherVars, setupFrame>>

\* unlock.go:50-63: with Threshold shares held, the secret is recombined
\* and DecryptFile writes the keyfile.
AfterSetupDecrypt ==
    /\ wpc = "unlock_shares"
    /\ Cardinality(decoded) >= ReadStateFromFile(stateFile).Threshold
    /\ LET state == ReadStateFromFile(stateFile)
           c == CombineSecret(decoded)
           nonce == UnlockNonce(state)
           r == DecryptFile(artifact, c.secret, nonce)
       IN  /\ combined' = c
           /\ IF c.err # "nil"
              THEN /\ wpc' = "unlock_failed"
                   /\ UNCHANGED <<cdec, output>>
              ELSE /\ cdec' = [key |-> c.secret, nonce |-> nonce,
                               err |-> r.err]
                   /\ output' = IF r.err = "nil"
                                THEN [exists |-> TRUE, data |-> r.plaintext]
                                ELSE output
                   /\ wpc' = IF r.err = "nil" THEN "unlock_done"
                                              ELSE "unlock_failed"
    /\ UNCHANGED <<stateFile, spc, secArgs, sec, decoded, presented, cpc, cin,
                   artifact, setupFrame>>

SetupNext ==
    \/ SetupTestKeyfile
    \/ SetupCreateSecret
    \/ SetupWriteState
    \/ SetupEncryptFile
    \/ SetupRemoveKeyfile
    \/ AfterSetupReadState
    \/ AfterSetupGetShare
    \/ AfterSetupDecrypt

SpecSetup == SetupInit /\ [][SetupNext]_vars

\* ------------------------------------ properties of Setup and its Unlock

\* Setup has sealed the keyfile.
SetupSealed == wpc \in {"setup_remove", "setup_done", "unlock_shares",
                        "unlock_done", "unlock_failed"}

MaxReads == 2        \* calls of GetFetchers

\* The priorities goroutine g can register its fetcher with: those of
\* the registrations [100, 10, 50] and [10, 10, 5].
Priorities(g) == CASE g = 1 -> {100, 10}
                   [] g = 2 -> {10}
                   [] OTHER -> {50, 5}

SharePaths == {"a", "b", "c"}

\* The fetcher goroutine g registers: the paths its Match accepts.
Matches(g) == CASE g = 1 -> {"a"}
                [] g = 2 -> {"a", "b"}
                [] OTHER -> {"b"}

\* What a caller can write into a slice it was given.
Hacker == [id |-> 0, priority |-> 1, match |-> SharePaths]

\* registry.go:29, 43: taking registryMu.
CanLock(mu) == mu = 0

CanRLock_Always(mu) == TRUE

CanRLock(mu) == mu = 0

\* registry.go:35-38: sort.Slice by Priority(); the sort is not stable, so
\* fetchers of equal priority come out in any order.
SortedPerms(elems) ==
    LET n == Len(elems)
    IN  {[i \in 1..n |-> elems[p[i]]] :
            p \in {q \in [1..n -> 1..n] :
                     /\ \A i, j \in 1..n : i # j => q[i] # q[j]
                     /\ \A i, j \in 1..n :
                          i < j => elems[q[i]].priority <= elems[q[j]].priority}}

\* registry.go:42-51: make and copy; the result shares nothing with the
\* registry and is never nil.
GetFetchers_NoCopy(fs) == [slice |-> fs, alias |-> TRUE]

GetFetchers(fs) ==
    [slice |-> [isNil |-> FALSE, elems |-> fs.elems], alias |-> FALSE]

\* get.go:47-65: the walk over the list from element i.
RECURSIVE FetchWalk(_, _, _, _)
FetchWalk(list, i, path, failing) ==
    IF i > Len(list)
    THEN [calls |-> <<>>, err |-> "nofetcher"]
    ELSE IF path \in list[i].match
    THEN [calls |-> <<list[i].id>>,
          err |-> IF list[i].id \in failing THEN "fetch" ELSE "nil"]
    ELSE FetchWalk(list, i + 1, path, failing)

\* get.go:47-65: FetchShare on the list of GetFetchers; `failing` are the
\* fetchers whose Fetch returns an error.
FetchShare_FallsThrough(list, path, failing) ==
    LET idx == {i \in 1..Len(list) : path \in list[i].match}
        good == {i \in idx : list[i].id \notin failing}
        last == IF good = {} THEN Len(list)
                ELSE CHOOSE i \in good : \A j \in good : i <= j
        tried == SelectSeq(SubSeq(list, 1, last), LAMBDA f : path \in f.match)
    IN  [calls |-> [k \in 1..Len(tried) |-> tried[k].id],
         err |-> IF idx = {} THEN "nofetcher"
                 ELSE IF good = {} THEN "fetch" ELSE "nil"]

FetchShare(list, path, failing) == FetchWalk(list, 1, path, failing)

\* What a caller does to a slice it was given.
Mutations == {"append", "reverse", "overwrite"}

Mutate(elems, kind) ==
    CASE kind = "append" -> Append(elems, Hacker)
      [] kind = "reverse" ->
            [i \in 1..Len(elems) |-> elems[Len(elems) + 1 - i]]
      [] OTHER -> IF elems = <<>> THEN elems
                  ELSE [elems EXCEPT ![1] = Hacker]

\* The variables of the workflows up to Setup, and their idle state.
coreVars == <<collectVars, unlockVars, secretVars, cipherVars, setupVars>>

CoreIdle ==
    /\ test = FALSE
    /\ fsState = "Stopped"
    /\ CollectIdle
    /\ UnlockIdle
    /\ SecretIdle
    /\ CipherIdle
    /\ SetupIdle

registryFrame == <<coreVars, lockVars, resetVars, testPathVars,
                  waitVars>>

RegistryInit ==
    /\ CoreIdle
    /\ LockIdle
    /\ ResetIdle
    /\ TestPathIdle
    /\ WaitIdle
    /\ rpc = [g \in Goroutines |-> "start"]
    /\ registryMu = 0
    /\ fetchers = NilSlice
    /\ got = NoGot
    /\ fret = NoFetch

\* The calls of Register that have appended their fetcher.
Appended == {g \in Goroutines : rpc[g] \in {"sort", "unlock", "done"}}

\* registry.go:29: registryMu.Lock().
RegisterLock(g) ==
    /\ rpc[g] = "start"
    /\ CanLock(registryMu)
    /\ registryMu' = g
    /\ rpc' = [rpc EXCEPT ![g] = "append"]
    /\ UNCHANGED <<fetchers, got, fret, registryFrame>>

\* registry.go:32: fetchers = append(fetchers, fetcher).
RegisterAppend(g) ==
    /\ rpc[g] = "append"
    /\ \E priority \in Priorities(g) :
         fetchers' = [isNil |-> FALSE,
                      elems |-> Append(fetchers.elems,
                                       [id |-> g, priority |-> priority,
                                        match |-> Matches(g)])]
    /\ rpc' = [rpc EXCEPT ![g] = "sort"]
    /\ UNCHANGED <<registryMu, got, fret, registryFrame>>

\* registry.go:35-38: sort.Slice.
RegisterSort(g) ==
    /\ rpc[g] = "sort"
    /\ \E sorted \in SortedPerms(fetchers.elems) :
         fetchers' = [fetchers EXCEPT !.elems = sorted]
    /\ rpc' = [rpc EXCEPT ![g] = "unlock"]
    /\ UNCHANGED <<registryMu, got, fret, registryFrame>>

\* registry.go:30: the deferred registryMu.Unlock().
RegisterUnlock(g) ==
    /\ rpc[g] = "unlock"
    /\ registryMu' = 0
    /\ rpc' = [rpc EXCEPT ![g] = "done"]
    /\ UNCHANGED <<fetchers, got, fret, registryFrame>>

\* registry.go:42-51: a call of GetFetchers, under the read lock.
GetFetchersCall ==
    /\ got.n < MaxReads
    /\ CanRLock(registryMu)
    /\ LET r == GetFetchers(fetchers)
       IN  got' = [n |-> got.n + 1, returned |-> r.slice, alias |-> r.alias,
                   appended |-> Appended, slice |-> r.slice.elems,
                   mutated |-> "no", unchanged |-> TRUE]
    /\ UNCHANGED <<rpc, registryMu, fetchers, fret, registryFrame>>

\* The caller appends to, reorders or overwrites the slice it was given.
\* A slice that shared its array with the registry would change the
\* registry with it, except by an append, which reallocates.
MutateReturned ==
    /\ got.n > 0
    /\ got.mutated = "no"
    /\ \E kind \in Mutations :
         LET m == Mutate(got.slice, kind)
             shared == /\ got.alias
                       /\ kind # "append"
                       /\ Len(fetchers.elems) = Len(got.slice)
         IN  /\ fetchers' = IF shared THEN [fetchers EXCEPT !.elems = m]
                                      ELSE fetchers
             /\ got' = [got EXCEPT !.slice = m, !.mutated = kind,
                                   !.unchanged = (fetchers' = fetchers)]
    /\ UNCHANGED <<rpc, registryMu, fret, registryFrame>>

\* get.go:47-65: a call of FetchShare.
FetchShareCall ==
    /\ fret = NoFetch
    /\ CanRLock(registryMu)
    /\ \E path \in SharePaths, failing \in SUBSET Goroutines :
         LET list == GetFetchers(fetchers).slice.elems
             r == FetchShare(list, path, failing)
         IN  fret' = [path |-> path, calls |-> r.calls, err |-> r.err,
                      list |-> list, failing |-> failing]
    /\ UNCHANGED <<rpc, registryMu, fetchers, got, registryFrame>>

RegistryNext ==
    \/ \E g \in Goroutines : RegisterLock(g)
    \/ \E g \in Goroutines : RegisterAppend(g)
    \/ \E g \in Goroutines : RegisterSort(g)
    \/ \E g \in Goroutines : RegisterUnlock(g)
    \/ GetFetchersCall
    \/ MutateReturned

SpecRegistry == RegistryInit /\ [][RegistryNext]_vars

\* FetchShare on a registry that is being filled.
FetchNext ==
    \/ \E g \in Goroutines : RegisterLock(g)
    \/ \E g \in Goroutines : RegisterAppend(g)
    \/ \E g \in Goroutines : RegisterSort(g)
    \/ \E g \in Goroutines : RegisterUnlock(g)
    \/ FetchShareCall

SpecFetch == RegistryInit /\ [][FetchNext]_vars

\* ------------------------------------------- properties of the registry

\* C22: FetchShare calls the Fetch of one fetcher at most: the first in the
\* list whose Match accepts the path, which no matching fetcher precedes in
\* priority; the error of that Fetch is the error of FetchShare and no
\* other fetcher is tried after it; with no matching fetcher no Fetch is
\* called and FetchShare fails.
C22_FirstMatchingFetcherOnly ==
    fret # NoFetch =>
        LET list == fret.list
            idx == {i \in 1..Len(list) : fret.path \in list[i].match}
        IN  /\ Len(fret.calls) <= 1
            /\ idx = {} => (fret.calls = <<>> /\ fret.err = "nofetcher")
            /\ idx # {} =>
                 \E i \in idx :
                    /\ fret.calls = <<list[i].id>>
                    /\ \A j \in idx : i <= j
                    /\ \A j \in idx : list[i].priority <= list[j].priority
                    /\ fret.err = IF list[i].id \in fret.failing
                                  THEN "fetch" ELSE "nil"

\* Fetcher 2 of priority 10 was chosen for path "a" and failed; fetcher 1
\* of priority 100 matches "a" too, would not have failed, and was not
\* tried.
C22_Witness ==
    /\ fret.path = "a"
    /\ fret.calls = <<2>>
    /\ fret.err = "fetch"
    /\ fret.failing = {2}
    /\ Len(fret.list) = 3
    /\ \E i \in 1..3 : fret.list[i].id = 1 /\ fret.list[i].priority = 100

\* The identities in a list, and whether it is in priority order.
IdsOf(elems) == {elems[i].id : i \in 1..Len(elems)}

InPriorityOrder(elems) ==
    \A i, j \in 1..Len(elems) :
        i < j => elems[i].priority <= elems[j].priority

\* C23: the registry holds exactly one entry for every Register call that
\* has appended, whatever the interleaving, so one per goroutine when all
\* are done; every list GetFetchers returns is in non-decreasing priority
\* order and holds one entry for every call that had appended by then.
C23_NoneLostAllSorted ==
    /\ Len(fetchers.elems) = Cardinality(Appended)
    /\ IdsOf(fetchers.elems) = Appended
    /\ got.n > 0 =>
         /\ InPriorityOrder(got.returned.elems)
         /\ Len(got.returned.elems) = Cardinality(got.appended)
         /\ IdsOf(got.returned.elems) = got.appended

\* All three goroutines are done; fetchers 2 and 1 have priority 10 and
\* stand in this order; the last GetFetchers ran between two Register
\* calls.
C23_Witness ==
    /\ \A g \in Goroutines : rpc[g] = "done"
    /\ Len(fetchers.elems) = 3
    /\ fetchers.elems[1].id = 2
    /\ fetchers.elems[2] = [id |-> 1, priority |-> 10, match |-> Matches(1)]
    /\ got.n = 2
    /\ got.appended = {1, 3}

\* C24: a list returned by GetFetchers is never nil, on an empty registry
\* either, and whatever its caller appends to it, reorders or overwrites in
\* it, the registry stays as it was: it never holds an element no Register
\* call put there.
C24_ReturnedSliceIsACopy ==
    /\ got.n > 0 => ~got.returned.isNil
    /\ got.mutated # "no" => got.unchanged
    /\ IdsOf(fetchers.elems) \subseteq Goroutines

\* The caller overwrote the first element of a list of three; the registry
\* still holds its three fetchers.
C24_Witness ==
    /\ got.mutated = "overwrite"
    /\ Len(got.slice) = 3
    /\ got.slice[1] = Hacker
    /\ got.unchanged
    /\ Len(fetchers.elems) = 3
    /\ IdsOf(fetchers.elems) = Goroutines

\* ------------------------------------------------- the application lock
\* lock.go: every instance of the program calls lockApp before it
\* dispatches its subcommand and keeps the returned file open until the
\* process exits.

Subcommands == {"setup", "unlock", "test-path", "reset"}

\* lock.go:35: syscall.Flock(fd, LOCK_EX|LOCK_NB) while `holders` hold the
\* lock through other open files.
Flock_Shared(holders) == "nil"

Flock(holders) == IF holders = {} THEN "nil" ELSE "EWOULDBLOCK"

\* lock.go:29-43: lockApp.
lockApp(openOk, holders) ==
    IF ~openOk THEN "open"
    ELSE IF Flock(holders) # "nil" THEN "lock"
    ELSE "nil"

lockFrame == <<coreVars, registryVars, resetVars, testPathVars,
                  waitVars>>

LockInit ==
    /\ CoreIdle
    /\ RegistryIdle
    /\ ResetIdle
    /\ TestPathIdle
    /\ WaitIdle
    /\ lpc = [i \in Instances |-> "start"]
    /\ lockHolders = {}
    /\ dispatched = [i \in Instances |-> "none"]
    /\ sawHeld = [i \in Instances |-> FALSE]

\* The instance calls lockApp; on an error it exits.
InstanceLock(i) ==
    /\ lpc[i] = "start"
    /\ \E openOk \in BOOLEAN :
         LET err == lockApp(openOk, lockHolders)
         IN  /\ lockHolders' = IF err = "nil" THEN lockHolders \cup {i}
                                              ELSE lockHolders
             /\ lpc' = [lpc EXCEPT ![i] = CASE err = "nil" -> "dispatch"
                                            [] err = "lock" -> "lock_failed"
                                            [] OTHER -> "open_failed"]
             /\ sawHeld' = [sawHeld EXCEPT ![i] = openOk /\ lockHolders # {}]
    /\ UNCHANGED <<dispatched, lockFrame>>

\* The instance runs its subcommand.
InstanceDispatch(i) ==
    /\ lpc[i] = "dispatch"
    /\ \E cmd \in Subcommands : dispatched' = [dispatched EXCEPT ![i] = cmd]
    /\ lpc' = [lpc EXCEPT ![i] = "running"]
    /\ UNCHANGED <<lockHolders, sawHeld, lockFrame>>

\* The process exits; its open files are closed and its lock is gone.
InstanceExit(i) ==
    /\ lpc[i] = "running"
    /\ lockHolders' = lockHolders \ {i}
    /\ lpc' = [lpc EXCEPT ![i] = "exited"]
    /\ UNCHANGED <<dispatched, sawHeld, lockFrame>>

LockNext ==
    \/ \E i \in Instances : InstanceLock(i)
    \/ \E i \in Instances : InstanceDispatch(i)
    \/ \E i \in Instances : InstanceExit(i)

SpecLock == LockInit /\ [][LockNext]_vars

MaxResets == 2       \* runs of Reset in a row

\* util.go:148-153: what prompt.Run can end with: the operator confirms,
\* declines, or the prompt fails.
PromptOutcomes == {"yes", "no", "error"}

\* util.go:145, 154-158: whether the removals follow.
AfterPrompt_IgnoresAnswer(force, answer) == "remove"

AfterPrompt(force, answer) ==
    IF force \/ answer = "yes" THEN "remove" ELSE "cancelled"

\* util.go:161: the files ResetConfiguration removes, in order.
ResetTargets_WithKeyfile == ResetFiles \o <<"keyfile">>

ResetTargets == ResetFiles

\* util.go:174: what a.fs.Remove can answer for a file.
SafeRemoveOutcomes(st) ==
    IF st = "absent" THEN {"notfound"} ELSE {"removed", "failed"}

\* util.go:173-187: safeRemoveFile; a file that is not there is no error.
safeRemoveFile(st, outcome) ==
    CASE outcome = "notfound" -> [err |-> "nil", st |-> st]
      [] outcome = "removed" -> [err |-> "nil", st |-> "absent"]
      [] OTHER -> [err |-> "remove", st |-> st]

\* util.go:162-167: whether the loop goes on after a removal.
AfterRemove_GoesOn(err) == "next"

AfterRemove(err) == IF err = "nil" THEN "next" ELSE "return"

resetFrame == <<coreVars, registryVars, lockVars, testPathVars,
                  waitVars>>

ResetInit ==
    /\ CoreIdle
    /\ RegistryIdle
    /\ LockIdle
    /\ TestPathIdle
    /\ WaitIdle
    /\ xpc = "prompt"
    /\ xargs \in [force : BOOLEAN]
    /\ files \in [DiskFiles -> {"present", "absent"}]
    /\ xret = "pending"
    /\ xrun = 1
    /\ xhist = [start |-> files, first |-> files, log |-> <<>>]

\* util.go:145-159: without the force flag the operator is asked.
ResetPrompt ==
    /\ xpc = "prompt"
    /\ \E answer \in PromptOutcomes :
         LET go == AfterPrompt(xargs.force, answer)
         IN  /\ xpc' = IF go = "remove" THEN "remove" ELSE "returned"
             /\ xret' = IF go = "remove" THEN xret ELSE "nil"
             /\ xhist' = [xhist EXCEPT
                            !.log = IF xargs.force THEN @
                                    ELSE Append(@, [file |-> "prompt",
                                                    outcome |-> answer]),
                            !.first = IF go # "remove" /\ xrun = 1
                                      THEN files ELSE @]
    /\ UNCHANGED <<xargs, files, xrun, resetFrame>>

\* The removals of this Reset so far.
Removals == SelectSeq(xhist.log, LAMBDA e : e.file # "prompt")

\* util.go:162-167: one turn of the loop over the files, or the return
\* after the last one.
ResetRemove ==
    /\ xpc = "remove"
    /\ LET i == Len(Removals) + 1
       IN  IF i > Len(ResetTargets)
           THEN /\ xpc' = "returned"
                /\ xret' = "nil"
                /\ xhist' = [xhist EXCEPT
                               !.first = IF xrun = 1 THEN files ELSE @]
                /\ UNCHANGED files
           ELSE \E outcome \in SafeRemoveOutcomes(files[ResetTargets[i]]) :
                  LET file == ResetTargets[i]
                      r == safeRemoveFile(files[file], outcome)
                      go == AfterRemove(r.err)
                  IN  /\ files' = [files EXCEPT ![file] = r.st]
                      /\ xpc' = IF go = "next" THEN "remove" ELSE "returned"
                      /\ xret' = IF go = "next" THEN xret ELSE "remove"
                      /\ xhist' = [xhist EXCEPT
                                     !.log = Append(@, [file |-> file,
                                                        outcome |-> outcome]),
                                     !.first = IF go # "next" /\ xrun = 1
                                               THEN files' ELSE @]
    /\ UNCHANGED <<xargs, xrun, resetFrame>>

\* Reset is run again, with the same flag.
ResetAgain ==
    /\ xpc = "returned"
    /\ xrun < MaxResets
    /\ xpc' = "prompt"
    /\ xret' = "pending"
    /\ xrun' = xrun + 1
    /\ xhist' = [xhist EXCEPT !.start = files, !.log = <<>>]
    /\ UNCHANGED <<xargs, files, resetFrame>>

ResetNext ==
    \/ ResetPrompt
    \/ ResetRemove
    \/ ResetAgain

SpecReset == ResetInit /\ [][ResetNext]_vars

\* ------------------------------------------------ properties of Reset

ThreeAbsent(fs) == \A i \in 1..Len(ResetFiles) : fs[ResetFiles[i]] = "absent"

\* The answer the operator gave in this Reset, "none" when not asked.
Answer ==
    IF xhist.log # <<>> /\ xhist.log[1].file = "prompt"
    THEN xhist.log[1].outcome ELSE "none"

\* C26: Reset removes none but the state file, the encrypted keyfile and
\* the config file; a file that is absent is no error: Reset fails only on
\* a present file that cannot be removed; a confirmed or forced Reset that
\* returns no error leaves the three absent; and a Reset after a Reset that
\* left the three absent changes nothing and returns no error.
C26_RemovesTheThreeIdempotent ==
    /\ \A f \in DiskFiles :
         files[f] # xhist.start[f] =>
            /\ \E i \in 1..Len(ResetFiles) : ResetFiles[i] = f
            /\ files[f] = "absent"
    /\ \A k \in 1..Len(Removals) :
         \E i \in 1..Len(ResetFiles) : ResetFiles[i] = Removals[k].file
    /\ (xpc = "returned" /\ xret # "nil") =>
         Removals[Len(Removals)].outcome = "failed"
    /\ (xpc = "returned" /\ xret = "nil"
            /\ (xargs.force \/ Answer = "yes")) => ThreeAbsent(files)
    /\ (xrun > 1 /\ ThreeAbsent(xhist.first)) =>
         /\ files = xhist.first
         /\ xret \in {"pending", "nil"}

\* A forced Reset found the encrypted keyfile absent, removed the state and
\* the config file, left the keyfile alone and returned no error.
C26_Witness ==
    /\ xargs.force
    /\ xpc = "returned"
    /\ xret = "nil"
    /\ xhist.start = [f \in DiskFiles |->
                        IF f = "encrypted" THEN "absent" ELSE "present"]
    /\ ThreeAbsent(files)
    /\ files["keyfile"] = "present"

\* C27: without the force flag nothing is removed unless the operator
\* confirmed: after a declined or failed prompt Reset has returned no error
\* and has attempted no removal, and the files are as they were.
C27_NothingDeletedUnlessConfirmed ==
    /\ (~xargs.force /\ Answer \in {"no", "error"}) =>
         /\ xpc = "returned"
         /\ xret = "nil"
         /\ Removals = <<>>
         /\ files = xhist.start
    /\ (~xargs.force /\ (Removals # <<>> \/ files # xhist.start)) =>
         Answer = "yes"

\* The prompt failed, Reset returned no error and the three files are
\* still there.
C27_Witness ==
    /\ ~xargs.force
    /\ Answer = "error"
    /\ xpc = "returned"
    /\ xret = "nil"
    /\ \A i \in 1..Len(ResetFiles) : files[ResetFiles[i]] = "present"

\* ------------------------------------------------- properties of Setup

\* C28: Setup checks the keyfile first: until TestKeyfile has succeeded,
\* which it does exactly when the keyfile exists and cryptsetup opens at
\* least one of the volumes lsblk lists, no secret is created and no state
\* file and no encrypted file is written; when it fails Setup has returned
\* an error and the keyfile is as it was.
C28_FailedPrecheckChangesNothing ==
    /\ wpc # "idle" =>
         (precheck.err = "nil"
             <=> (precheck.exists /\ precheck.lsblk /\ precheck.opened))
    /\ (wpc # "idle" /\ precheck.err # "nil") =>
         /\ wpc \in {"setup_test", "setup_failed"}
         /\ precheck.err = "pending" <=> wpc = "setup_test"
         /\ sec = NoSecret
         /\ stateFile = NoState
         /\ artifact = NoArtifact
         /\ precheck.err # "pending" => output = precheck.keyfile

\* The keyfile is there, lsblk listed volumes, cryptsetup opened none of
\* them, and Setup has returned its error.
C28_Witness ==
    /\ wpc = "setup_failed"
    /\ precheck.err = "no_device"
    /\ precheck.exists
    /\ precheck.lsblk
    /\ output = [exists |-> TRUE, data |-> <<0, 1>>]
    /\ stateFile = NoState

\* ------------------------------------------------------------- TestPath

\* The share texts a fetcher can hand back: the line is base64 or not,
\* signed under this key or another one, with a share id or none.
FetchedTexts == [b64 : BOOLEAN, key : {SigningKey, OtherKey}, id : 0..1]

\* The state files TestPath can meet: none, or one written by Setup with
\* either signing key.
TestPathStates ==
    {NoState} \cup {WriteStateToFile(k, n, 1) :
                        k \in {SigningKey, OtherKey}, n \in SetupNonces}

testPathFrame == <<coreVars, registryVars, lockVars, resetVars, waitVars>>

TestPathInit ==
    /\ test = FALSE
    /\ fsState = "Stopped"
    /\ CollectIdle
    /\ UnlockIdle
    /\ SecretIdle
    /\ CipherIdle
    /\ RegistryIdle
    /\ LockIdle
    /\ ResetIdle
    /\ WaitIdle
    /\ wpc = "idle"
    /\ precheck = NoPrecheck
    /\ stateFile \in TestPathStates
    /\ tpc = "fetch"
    /\ tpret = NoTestPath
    /\ fileOps = {}

\* util.go:121-124: FetchShare; its error is returned.  The share comes
\* from the fetcher, no file of the program is touched.
TestPathFetch ==
    /\ tpc = "fetch"
    /\ \/ /\ tpret' = [tpret EXCEPT !.err = "fetch"]
          /\ tpc' = "returned"
       \/ \E text \in FetchedTexts :
            /\ tpret' = [tpret EXCEPT !.text = text]
            /\ tpc' = "read_state"
    /\ UNCHANGED <<fileOps, testPathFrame>>

\* util.go:128-131: ReadStateFromFile on the state path; its error is
\* returned.
TestPathReadState ==
    /\ tpc = "read_state"
    /\ fileOps' = fileOps \cup ReadStateOps
    /\ IF ReadStateFromFile(stateFile).err # "nil"
       THEN /\ tpret' = [tpret EXCEPT !.err = "state"]
            /\ tpc' = "returned"
       ELSE /\ tpret' = tpret
            /\ tpc' = "get_share"
    /\ UNCHANGED testPathFrame

\* util.go:133-140: GetShare under the signing key of the state; nil when
\* the share verifies.
TestPathGetShare ==
    /\ tpc = "get_share"
    /\ tpret' = [tpret EXCEPT !.err =
                    GetShare(tpret.text,
                             ReadStateFromFile(stateFile).SigningKey).err]
    /\ tpc' = "returned"
    /\ UNCHANGED <<fileOps, testPathFrame>>

TestPathNext ==
    \/ TestPathFetch
    \/ TestPathReadState
    \/ TestPathGetShare

\* Unlock and TestPath, one run of either.
ReadersInit ==
    \/ UnlockInit
    \/ TestPathInit

ReadersNext ==
    \/ UnlockNext
    \/ TestPathNext

SpecReaders == ReadersInit /\ [][ReadersNext]_vars

\* ------------------------------------ what Unlock and TestPath touch

\* The files Setup made and Reset removes.
PersistentFiles == {"state", "encrypted", "config"}

\* C29: at every point of a run of Unlock or of TestPath, whatever the
\* outcome, every access made to the state file, to the encrypted keyfile
\* and to the config file is a read: none of them is written, rewritten or
\* deleted, and the state file on disk is one Setup wrote or still absent.
C29_PersistentFilesOnlyRead ==
    /\ \A o \in fileOps : o.file \in PersistentFiles => o.op = "read"
    /\ stateFile \in TestPathStates

\* An Unlock that returned nil after reading the three files, writing the
\* keyfile and removing it.
C29_Witness ==
    /\ upc = "returned"
    /\ uret = "nil"
    /\ ~test
    /\ {FileOp("read", f) : f \in PersistentFiles} \subseteq fileOps
    /\ FileOp("write", "keyfile") \in fileOps
    /\ FileOp("remove", "keyfile") \in fileOps

\* --------------------------------------------------- WaitForArrayStatus

MaxTimeout == 3      \* longest timeout of a call, in ticks

\* constants.go:24: ArrayRetryDelay, in ticks.
ArrayRetryDelay == 2

\* The ticks one check can take, and the ticks one sleep can take:
\* time.Sleep pauses for at least the delay.
CheckTicks == 0..1
SleepTicks == ArrayRetryDelay..(ArrayRetryDelay + 1)

\* No run of the loop gets this far on the clock.
MaxNow == MaxTimeout + ArrayRetryDelay + 3

\* The statuses asked for; EqualFold ignores the case.
WaitStatuses == {"Stopped", "started"}

\* unraid.go:219: deadline := time.Now().Add(timeout).
Deadline(t, timeout) == t + timeout

\* unraid.go:228: time.Now().After(deadline).
After_Never(t, d) == FALSE

After(t, d) == t > d

waitFrame == <<collectOnly, test, unlockVars, secretVars, cipherVars,
               setupVars, registryVars, lockVars, resetVars, testPathVars>>

WaitInit ==
    /\ test = FALSE
    /\ fsState \in FsStates
    /\ CollectIdle
    /\ UnlockIdle
    /\ SecretIdle
    /\ CipherIdle
    /\ SetupIdle
    /\ RegistryIdle
    /\ LockIdle
    /\ ResetIdle
    /\ TestPathIdle
    /\ wfpc = "check"
    /\ wfargs \in [status : WaitStatuses, timeout : 0..MaxTimeout]
    /\ now = 0
    /\ deadline = Deadline(now, wfargs.timeout)
    /\ observed = <<>>
    /\ wfret = "pending"

\* unraid.go:222-230: VerifyArrayStatus, then the return of nil, or the
\* look at the clock and the return of the timeout error.
WaitCheck ==
    /\ wfpc = "check"
    /\ \E readOk \in BOOLEAN, d \in CheckTicks :
         /\ now + d <= MaxNow
         /\ now' = now + d
         /\ observed' = Append(observed, [fs |-> fsState, readOk |-> readOk,
                                          at |-> now'])
         /\ IF VerifyArrayStatus(wfargs.status, fsState, readOk)
            THEN wfpc' = "returned" /\ wfret' = "nil"
            ELSE IF After(now', deadline)
            THEN wfpc' = "returned" /\ wfret' = "timeout"
            ELSE wfpc' = "sleep" /\ wfret' = wfret
    /\ UNCHANGED <<fsState, wfargs, deadline, waitFrame>>

\* unraid.go:232-236: time.Sleep(ArrayRetryDelay), and round the loop.
WaitSleep ==
    /\ wfpc = "sleep"
    /\ \E t \in SleepTicks :
         /\ now + t <= MaxNow
         /\ now' = now + t
    /\ wfpc' = "check"
    /\ UNCHANGED <<fsState, wfargs, deadline, observed, wfret, waitFrame>>

\* The array changes state while the call waits.
WaitArrayChange ==
    /\ wfpc \in {"check", "sleep"}
    /\ fsState' \in FsStates \ {fsState}
    /\ UNCHANGED <<waitVars, waitFrame>>

WaitNext ==
    \/ WaitCheck
    \/ WaitSleep
    \/ WaitArrayChange

\* The loop is sequential code: a check or a sleep that is due happens.
SpecWait ==
    WaitInit /\ [][WaitNext]_vars /\ WF_vars(WaitCheck) /\ WF_vars(WaitSleep)

\* ------------------------------------- properties of WaitForArrayStatus

\* A check read the status that was asked for.
SawExpected(o) ==
    /\ o.readOk
    /\ \/ o.fs = "Stopped" /\ wfargs.status = "Stopped"
       \/ o.fs = "Started" /\ wfargs.status = "started"

WaitReturned == wfpc = "returned"

WaitSafe ==
    /\ WaitReturned => Len(observed) >= 1
    /\ \A i \in 1..Len(observed) :
         SawExpected(observed[i]) =>
             i = Len(observed) /\ WaitReturned /\ wfret = "nil"
    /\ wfret = "nil" => SawExpected(observed[Len(observed)])
    /\ wfret = "timeout" =>
         /\ ~SawExpected(observed[Len(observed)])
         /\ observed[Len(observed)].at > wfargs.timeout

\* C30: WaitForArrayStatus has checked the array at least once when it
\* returns, whatever the timeout; a check that reads the expected status
\* is the last one and the call returns nil at it; nil is returned only
\* at such a check; the timeout error is returned only at a check that
\* did not read the expected status and ended after the deadline, the
\* start of the call plus the timeout; and every call returns.
C30_WaitChecksFirstAndTerminates == []WaitSafe /\ <>WaitReturned

\* A call with a zero timeout that checked twice, the first check ending
\* on the deadline itself, and then timed out.
C30_Witness ==
    /\ WaitReturned
    /\ wfargs.timeout = 0
    /\ wfret = "timeout"
    /\ Len(observed) = 2

\* ------------------------------------------------ the built-in fetchers
\* dns, http, awssecrets (two fetchers) and rclone register themselves in
\* their init functions, which run one after the other before main.

Builtins == {"dns", "http", "aws-secrets", "aws-ssm", "rclone"}

\* PriorityDNS, PriorityHTTP, PriorityAWS (both cloud-store fetchers) and
\* PriorityRclone.
BuiltinPriority(b) ==
    CASE b = "dns" -> 10
      [] b = "http" -> 20
      [] b = "rclone" -> 100
      [] OTHER -> 25

\* The prefix the Match of a fetcher asks for; rclone's Match asks for
\* none.  A path is the sequence of its characters.
BuiltinPrefix_Overlapping(b) ==
    CASE b = "dns" -> <<"d", "n", "s", ":">>
      [] b = "http" -> <<"h", "t", "t", "p">>
      [] b = "aws-secrets" -> <<"a", "w", "s", "-", "s">>
      [] b = "aws-ssm" -> <<"a", "w", "s", "-", "s">>
      [] OTHER -> <<>>

BuiltinPrefix(b) ==
    CASE b = "dns" -> <<"d", "n", "s", ":">>
      [] b = "http" -> <<"h", "t", "t", "p">>
      [] b = "aws-secrets" ->
            <<"a", "w", "s", "-", "s", "e", "c", "r", "e", "t", "s", ":",
              "/", "/">>
      [] b = "aws-ssm" ->
            <<"a", "w", "s", "-", "s", "s", "m", ":", "/", "/">>
      [] OTHER -> <<>>

\* strings.HasPrefix.
HasPrefix(s, prefix) ==
    /\ Len(s) >= Len(prefix)
    /\ SubSeq(s, 1, Len(prefix)) = prefix

MaxTail == 1         \* characters of a path after its stem

\* The paths looked at: every beginning of every prefix, followed by up to
\* MaxTail characters.
TailChars == {"s", "e", "x"}

RECURSIVE Tails(_)
Tails(n) ==
    IF n = 0 THEN {<<>>}
    ELSE Tails(n - 1) \cup {Append(t, c) : t \in Tails(n - 1), c \in TailChars}

BuiltinPaths ==
    UNION {{SubSeq(BuiltinPrefix(b), 1, k) \o t :
                k \in 0..Len(BuiltinPrefix(b)), t \in Tails(MaxTail)} :
           b \in Builtins}

\* The fetcher as the registry holds it.
BuiltinFetcher(b) ==
    [id |-> b, priority |-> BuiltinPriority(b),
     match |-> {p \in BuiltinPaths : HasPrefix(p, BuiltinPrefix(b))}]

BuiltinInit ==
    /\ CoreIdle
    /\ LockIdle
    /\ ResetIdle
    /\ TestPathIdle
    /\ WaitIdle
    /\ rpc = [b \in Builtins |-> "start"]
    /\ registryMu = 0
    /\ fetchers = NilSlice
    /\ got = NoGot
    /\ fret = NoFetch

\* registry.go:28-39: Register, called from an init function, with no
\* other goroutine about: append, then sort.Slice.
BuiltinRegister(b) ==
    /\ rpc[b] = "start"
    /\ CanLock(registryMu)
    /\ \E sorted \in SortedPerms(Append(fetchers.elems, BuiltinFetcher(b))) :
         fetchers' = [isNil |-> FALSE, elems |-> sorted]
    /\ rpc' = [rpc EXCEPT ![b] = "done"]
    /\ UNCHANGED <<registryMu, got, fret, registryFrame>>

\* get.go:47-65: FetchShare, called after every init function has run.
BuiltinFetchShare ==
    /\ \A b \in Builtins : rpc[b] = "done"
    /\ fret = NoFetch
    /\ \E path \in BuiltinPaths, failing \in {{}, Builtins} :
         LET list == GetFetchers(fetchers).slice.elems
             r == FetchShare(list, path, failing)
         IN  fret' = [path |-> path, calls |-> r.calls, err |-> r.err,
                      list |-> list, failing |-> failing]
    /\ UNCHANGED <<rpc, registryMu, fetchers, got, registryFrame>>

BuiltinNext ==
    \/ \E b \in Builtins : BuiltinRegister(b)
    \/ BuiltinFetchShare

SpecBuiltin == BuiltinInit /\ [][BuiltinNext]_vars

\* C32: with the five built-in fetchers registered, in whatever order the
\* init functions ran and the sort left the two fetchers of priority 25,
\* at most one fetcher other than the catch-all matches a path; FetchShare
\* calls that one, and the catch-all exactly when there is none; it never
\* fails for want of a fetcher.
C32_BuiltinChoiceIsOrderFree ==
    fret # NoFetch =>
        LET list == fret.list
            named == {i \in 1..Len(list) :
                         /\ list[i].id # "rclone"
                         /\ fret.path \in list[i].match}
        IN  /\ IdsOf(list) = Builtins
            /\ Cardinality(named) <= 1
            /\ fret.err # "nofetcher"
            /\ \A i \in named : fret.calls = <<list[i].id>>
            /\ named = {} <=> fret.calls = <<"rclone">>

\* The SSM fetcher was chosen for a path beginning aws-ssm:// although
\* the other fetcher of priority 25 stands before it in the list.
C32_Witness ==
    /\ fret # NoFetch
    /\ HasPrefix(fret.path, <<"a", "w", "s", "-", "s", "s", "m", ":", "/",
                              "/">>)
    /\ fret.calls = <<"aws-ssm">>
    /\ \E i, j \in 1..Len(fret.list) :
         /\ i < j
         /\ fret.list[i].id = "aws-secrets"
         /\ fret.list[j].id = "aws-ssm"

\* --------------------------------- Setup over what an earlier Setup left
\* Nothing in Setup looks at the state file or the encrypted file before
\* it writes them (setup.go:15-72), so Setup runs over whatever is on disk.

\* The state file and the encrypted file of an earlier Setup: another
\* signing key, another secret.
OldNonce == [i \in 1..NonceBytes |-> 1]
OldSecret == [i \in 1..EncryptionKeyBytes |-> 7]
OldState == WriteStateToFile(OtherKey, OldNonce, 1)
OldArtifact ==
    EncryptFile([exists |-> TRUE, data |-> <<1>>], OldSecret, OldNonce,
                CHOOSE p \in Paddings : Len(p) = MinPaddingLength).ciphertext

ResetupInit ==
    /\ test = FALSE
    /\ fsState = "Stopped"
    /\ CollectIdle
    /\ UnlockIdle
    /\ spc = "idle"
    /\ sec = NoSecret
    /\ decoded = {}
    /\ presented = NoPresented
    /\ combined = NoCombined
    /\ secArgs \in {a \in [threshold : 1..MaxThreshold, shares : 1..MaxTotal] :
                      a.threshold <= a.shares}
    /\ cpc = "idle"
    /\ cin = [file |-> NoFile, key |-> <<>>, nonce |-> <<>>, tampered |-> "no"]
    /\ cdec = [key |-> <<>>, nonce |-> <<>>, err |-> "pending"]
    /\ output \in {NoFile} \cup {[exists |-> TRUE, data |-> p] :
                                    p \in SetupKeyfiles}
    /\ wpc = "setup_test"
    /\ \/ stateFile = NoState /\ artifact = NoArtifact
       \/ stateFile = OldState /\ artifact = OldArtifact
    /\ precheck = NoPrecheck
    /\ ExtraIdle

ResetupNext ==
    \/ SetupTestKeyfile
    \/ SetupCreateSecret
    \/ SetupWriteState
    \/ SetupEncryptFile
    \/ SetupRemoveKeyfile

SpecResetup == ResetupInit /\ [][ResetupNext]_vars

\* ----------------------------------------- what a Setup leaves on disk

SetupReturned == wpc \in {"setup_failed", "setup_done"}

\* The state file, the encrypted file: written by this run.
StateOfThisRun ==
    /\ sec.err = "nil"
    /\ stateFile = WriteStateToFile(sec.SigningKey, sec.Nonce,
                                    secArgs.threshold)

ArtifactOfThisRun ==
    /\ sec.err = "nil"
    /\ artifact.exists
    /\ artifact.tag = GcmTag(sec.Secret, sec.Nonce, artifact.body)

\* The two files as they were before this run.
AsBefore ==
    \/ stateFile = NoState /\ artifact = NoArtifact
    \/ stateFile = OldState /\ artifact = OldArtifact

\* C34 as stated: when Setup has returned, with an error or without, the
\* state file and the encrypted file are both of this run or both as they
\* were before it.
C34_StateAndArtifactOfOneRun ==
    SetupReturned => (AsBefore \/ (StateOfThisRun /\ ArtifactOfThisRun))

\* The keyfile Setup was started on.
KeyfileAtStart == IF wpc = "setup_test" THEN output ELSE precheck.keyfile

\* C35: at every moment of a Setup started on a keyfile, the keyfile is
\* on disk as it was, or the encrypted file opens under the secret and
\* the nonce of this run to the bytes of that keyfile; a Setup that failed
\* has left the keyfile in place, and the keyfile is gone only once
\* EncryptFile has returned nil.
C35_KeyfileNeverLost ==
    KeyfileAtStart.exists =>
        /\ \/ output = KeyfileAtStart
           \/ DecryptFile(artifact, sec.Secret, sec.Nonce) =
                  [err |-> "nil", plaintext |-> KeyfileAtStart.data]
        /\ wpc = "setup_failed" => output = KeyfileAtStart
        /\ output # KeyfileAtStart => wpc = "setup_done"

\* A Setup over the files of an earlier one is done: the keyfile is
\* removed, the encrypted file is the one this run wrote.
C35_Witness ==
    /\ wpc = "setup_done"
    /\ precheck.keyfile = [exists |-> TRUE, data |-> <<0, 1>>]
    /\ output = NoFile
    /\ artifact # OldArtifact
    /\ stateFile.signingKey = SigningKey
    /\ cin.file = precheck.keyfile

\* ------------------------------------------ success means Started seen

\* unlock.go:83-107: Unlock outside test mode has returned success.
UnlockSucceeded == ~test /\ UnlockReturned /\ uret = "nil"

\* C36: a non-test Unlock returns success only if, after DecryptFile wrote
\* the keyfile, a read of the array gave Started: the read of the bounded
\* wait that follows a start instruction that succeeded, or the one read
\* that follows the failure of the first start instruction.
C36_SuccessOnlyAfterStartedSeen ==
    UnlockSucceeded =>
        /\ DecryptSucceeded
        /\ startedSeen \in {"retry_check", "final_wait"}
        /\ startedSeen = "retry_check" =>
               start1 = "err" /\ startCalls = 1
        /\ startedSeen = "final_wait" =>
               startSent >= 1 /\ startLog[Len(startLog)].sent

\* Success after the first start instruction failed, by the single read.
C36_Witness ==
    /\ UnlockSucceeded
    /\ startedSeen = "retry_check"
    /\ start1 = "err"
    /\ startSent = 0

\* ------------------------------------- StartArray and the keyfile path

\* args.go:36: --keyfile is the default path or another one.
KeyPaths == {"/root/keyfile", "elsewhere"}

\* Unlock is called with either keyfile path.  With another path the file
\* at /root/keyfile is a second file, there or not.
StartArrayInit ==
    /\ UnlockStart
    /\ keyPath \in KeyPaths
    /\ rootKeyfile \in (IF keyPath = "/root/keyfile"
                        THEN {"absent"} ELSE {"absent", "present"})

\* Actions.php:268-270 and any other process: the plaintext keyfile that
\* DecryptFile wrote is removed while Unlock runs.
KeyfileVanishes ==
    /\ upc \notin {"idle", "returned"}
    /\ keyfile = "present"
    /\ keyfile' = "absent"
    /\ UNCHANGED <<upc, deferred, polls, startCalls, startSent, uret, steps,
                   arrayQueried, preCheck, start1, notStartedAfter,
                   removeRan, fsState, unlockFrame>>

StartArrayNext ==
    \/ UnlockNext
    \/ KeyfileVanishes

SpecStartArray == StartArrayInit /\ [][StartArrayNext]_vars

\* A call of StartArray that sent the start command.
SentIn(call) == call.sent

\* C37 as stated: a start command is sent only in a call of StartArray
\* whose check found the keyfile at the configured path in place and
\* whose bounded wait read the array as Stopped; a call where one of the
\* two fails sends nothing.
C37_SendsOnlyWithConfiguredKeyfile ==
    \A i \in 1..Len(startLog) :
        SentIn(startLog[i]) =>
            /\ startLog[i].configured = "present"
            /\ startLog[i].sawStopped

\* What the code guarantees: the command is sent only after the stat of
\* /root/keyfile succeeded and a check of the wait read Stopped.
StartArrayGuard ==
    \A i \in 1..Len(startLog) :
        SentIn(startLog[i]) => startLog[i].statOk /\ startLog[i].sawStopped

\* The command went out while the configured keyfile was not there.
SentWithoutConfiguredKeyfile ==
    \E i \in 1..Len(startLog) :
        /\ SentIn(startLog[i])
        /\ startLog[i].configured = "absent"
        /\ keyPath = "elsewhere"
        /\ rootKeyfile = "present"

\* With the default path the stated guard is the guard of the code.
DefaultPathGuard ==
    keyPath = "/root/keyfile" => C37_SendsOnlyWithConfiguredKeyfile

\* ------------------------------------------- Reset stops at a failure

\* The removals of this Reset came in the order of util.go:161.
RemovalsInOrder ==
    /\ Len(Removals) <= Len(ResetTargets)
    /\ \A j \in 1..Len(Removals) : Removals[j].file = ResetTargets[j]

\* The place in the order of the removal that failed, 0 when none did.
FailedAt ==
    IF \E j \in 1..Len(Removals) : Removals[j].outcome = "failed"
    THEN CHOOSE j \in 1..Len(Removals) : Removals[j].outcome = "failed"
    ELSE 0

\* C38: Reset removes the state file, the encrypted keyfile and the config
\* file in this order.  The first removal that fails for another reason
\* than the file being absent is the last one made: Reset returns an
\* error, the files before it in the order are gone, the file itself and
\* the files after it are as they were when Reset began.  A file that is
\* absent does not stop Reset.
C38_ResetStopsAtFirstFailure ==
    /\ RemovalsInOrder
    /\ FailedAt # 0 =>
           /\ FailedAt = Len(Removals)
           /\ xpc = "returned"
           /\ xret = "remove"
           /\ \A j \in 1..(FailedAt - 1) :
                  files[ResetTargets[j]] = "absent"
           /\ \A j \in FailedAt..Len(ResetTargets) :
                  files[ResetTargets[j]] = xhist.start[ResetTargets[j]]
           /\ files[ResetTargets[FailedAt]] = "present"
    /\ (xpc = "returned" /\ xret = "remove") => FailedAt # 0
    /\ \A j \in 1..Len(Removals) :
           (Removals[j].outcome = "notfound" /\ j < Len(ResetTargets)
            /\ xpc = "returned") => Len(Removals) > j

\* The removal of the encrypted keyfile failed: the state file, which was
\* there, is gone, and the config file is still there.
C38_Witness ==
    /\ xpc = "returned"
    /\ xret = "remove"
    /\ FailedAt = 2
    /\ xhist.start["state"] = "present"
    /\ files["state"] = "absent"
    /\ files["encrypted"] = "present"
    /\ files["config"] = "present"

====
